---- MODULE Spec2Model ----
(***************************************************************************)
(* ydn-db: the connection manager and transaction queue of                 *)
(* ydn.db.con.Storage (src/unnamed/part_000).                              *)
(*                                                                         *)
(* The storage object keeps a backend handle (db_), a queue of pending     *)
(* transaction requests (txQueue_) and a flag that is set while a          *)
(* versionchange transaction runs (in_version_change_tx_).  Every handler  *)
(* of the object (setName, the two callbacks of db.connect, close,         *)
(* transaction and the on_complete closure handed to the backend) is one   *)
(* action; the private helpers it calls (popTxQueue_, pushTxQueue_,        *)
(* purgeTxQueue_) are operators on a record of the object's fields, so     *)
(* that an action is the whole handler.  addStoreSchema, which edits the   *)
(* schema and reconnects, is checked under a specification of its own, and *)
(* so is the cursor of the WebSQL backend                                  *)
(* (src/js/ydn/db/index/req/websql_cursor.js).                             *)
(***************************************************************************)
EXTENDS Integers, Sequences, FiniteSets, TLC

\* ------------------------------------------------------------------ bounds

\* Number of transaction() calls made by the client in one behaviour.
MaxReq == 3

\* Number of connectDatabase() calls (setName) made in one behaviour.
MaxConnect == 1

\* ydn.db.con.Storage.MAX_QUEUE is 1000 in the source; the queue bound is
\* scaled down so that an overflow happens within MaxReq submissions.
MAX_QUEUE == 2

\* Number of addStoreSchema() calls made in one behaviour.
MaxSchemaCalls == 2

\* Number of rows of the store a cursor is opened on.
MaxRows == 3

\* --------------------------------------------------------------- constants

\* The null backend handle (this.db_ = null).
NULL == [id |-> 0, type |-> ""]

\* An omitted argument.
UNDEFINED == "undefined"

\* The TYPE strings of the five backends (ydn.db.con.*.TYPE).
IndexedDbTYPE == "indexeddb"
WebSqlTYPE == "websql"
LocalStorageTYPE == "localstorage"
SessionStorageTYPE == "sessionstorage"
SimpleStorageTYPE == "memory"

\* ydn.db.con.Storage.PREFERENCE
PREFERENCE ==
  <<IndexedDbTYPE, WebSqlTYPE, LocalStorageTYPE, SessionStorageTYPE,
    SimpleStorageTYPE>>

\* goog.userAgent.product.ASSUME_*: compile-time defines, false unless the
\* library is compiled for one browser.
ASSUME_CHROME == FALSE
ASSUME_FIREFOX == FALSE
ASSUME_SAFARI == FALSE

\* ydn.db.base.TransactionMode
READ_ONLY == "readonly"
VERSION_CHANGE == "versionchange"

\* ydn.db.base.TransactionEventTypes
COMPLETE == "complete"
ERROR == "error"
ABORT == "abort"
TransactionEventTypes == {COMPLETE, ERROR, ABORT}

\* ------------------------------------------------------------------- state

VARIABLES
  mechanisms,             \* this.mechanisms: the configured list of backend names
  supported,              \* the backends whose isSupported() is true here
  db_,                    \* this.db_: NULL or the connected backend instance
  dbReady,                \* db_.isReady()
  connecting,             \* backend instances whose connect() is pending
  nconnect,               \* connectDatabase() calls so far
  txQueue_,               \* this.txQueue_
  in_version_change_tx_,  \* this.in_version_change_tx_
  running,                \* requests handed to doTransaction, not yet completed
  nsubmit,                \* transaction() calls so far
  handed,                 \* ids of the requests handed to doTransaction so far
  completions,            \* onComplete invocations so far, in order
  dropped,                \* ids of the requests removed by a queue overflow
  failEvents,             \* FAIL events dispatched
  openFailed,             \* db.connect() results that were failures
  lastError,              \* the exception the last handler ended with, or ""
  auto_schema,            \* this.schema instanceof ydn.db.schema.EditableDatabase
  schema,                 \* this.schema: the store schemas of the database
  schemaCalls,            \* addStoreSchema() calls so far: argument and outcome
  table,                  \* the rows of the store the cursor's statements read
  index_name,             \* cursor.index_name: "" for a cursor on the store
  index_type,             \* the type of the index (store_schema_.getIndex().getType())
  key_range,              \* cursor.key_range
  reverse,                \* cursor.reverse: direction is prev or prevUnique
  unique,                 \* cursor.unique: direction is nextUnique or prevUnique
  key_only,               \* cursor.key_only
  cursor_,                \* cursor.cursor_: null, or the materialized result set
  current_cursor_index_,  \* cursor.current_cursor_index_
  has_pending_request,    \* cursor.has_pending_request
  request,                \* the statement handed to tx.executeSql, not yet answered
  emitted,                \* the events the last handler of the cursor emitted
  cursorError,            \* the exception the last handler of the cursor ended with
  df,                     \* the deferred the last update() or clear() returned
  rollback,               \* the callback that ran last returned true (roll back)
  ir,                     \* a ydn.db.Sql query object: the fields of the IR
  query,                  \* what the last method called on the query returned
  sqlError,               \* the exception the last method of the query ended with
  objects,                \* the records of the store the query is run on
  found,                  \* what the two backends returned for the query
  crudStores,             \* the records each store of the database holds
  crudRequests,           \* the request each transaction() call was made for
  crudResults             \* what each request resolved to, by request

\* The schema of the storage object and the record of its edits.
schemaVars == <<auto_schema, schema, schemaCalls>>

\* The cursor of the WebSQL backend, its configuration and the store it reads.
cursorVars ==
  <<table, index_name, index_type, key_range, reverse, unique, key_only,
    cursor_, current_cursor_index_, has_pending_request, request, emitted,
    cursorError, df, rollback>>

\* The storage object, without its schema.
storageVars ==
  <<mechanisms, supported, db_, dbReady, connecting, nconnect, txQueue_,
    in_version_change_tx_, running, nsubmit, handed, completions, dropped,
    failEvents, openFailed, lastError>>

\* The query object and the outcome of the last call on it.
sqlVars == <<ir, query, sqlError, objects, found>>

\* The records of the database and the requests of its clients.
crudVars == <<crudStores, crudRequests, crudResults>>

vars == <<storageVars, schemaVars, cursorVars, sqlVars, crudVars>>

\* The fields a handler reads and writes, as one record, so that the private
\* helpers can be composed inside one action. exc is the exception in flight
\* ("" when none): once it is set the rest of the handler is skipped.
Fields ==
  [db_ |-> db_, dbReady |-> dbReady, txQueue_ |-> txQueue_,
   in_version_change_tx_ |-> in_version_change_tx_, running |-> running,
   handed |-> handed, completions |-> completions, dropped |-> dropped,
   exc |-> ""]

Store(s) ==
  /\ db_' = s.db_
  /\ dbReady' = s.dbReady
  /\ txQueue_' = s.txQueue_
  /\ in_version_change_tx_' = s.in_version_change_tx_
  /\ running' = s.running
  /\ handed' = s.handed
  /\ completions' = s.completions
  /\ dropped' = s.dropped

\* ----------------------------------------------------------------- inputs

\* What a client passes as opt_mode: nothing, or versionchange. Any other
\* mode takes the path of the default, the code comparing opt_mode with
\* VERSION_CHANGE only.
ModeInputs == {UNDEFINED, VERSION_CHANGE}

\* What a client passes as store_names, by shape: one name, a list of names,
\* or something that is neither (not an array, or an array whose first
\* element is no string). A null store_names is kept as null and takes the
\* same path as a list from there on; the model leaves it out.
StoreNameInputs == {"string", "array", "invalid"}

\* The values of options.Mechanisms the model configures the storage with.
MechanismOptions ==
  { PREFERENCE,
    <<"WebSQL", "IndexedDB">>,
    <<"sessionstorage", "localstorage">>,
    <<"bogus", "memory", "websql">>,
    <<"bogus">>,
    <<>> }

\* The backends the environment supports (SimpleStorage needs no support).
SupportOptions ==
  { {}, {WebSqlTYPE}, {IndexedDbTYPE, WebSqlTYPE}, {LocalStorageTYPE},
    {IndexedDbTYPE, WebSqlTYPE, LocalStorageTYPE, SessionStorageTYPE} }

\* ---------------------------------------------------- backend selection

\* String.prototype.toLowerCase on the names the model configures.
ToLowerCase(str) ==
  CASE str = "WebSQL" -> "websql"
    [] str = "IndexedDB" -> "indexeddb"
    [] OTHER -> str

\* ydn.db.con.<Backend>.isSupported(): run-time detection
isSupported(db_type) == db_type \in supported

\* createDbInstance: a new backend instance of the type, or null
createDbInstance(db_type, n) ==
  IF db_type \in {IndexedDbTYPE, WebSqlTYPE, LocalStorageTYPE,
                  SessionStorageTYPE, SimpleStorageTYPE}
    THEN [id |-> n, type |-> db_type]
    ELSE NULL

\* Mutant of selectDb: the run-time detection is left out.
RECURSIVE selectDb_NoDetection(_, _)
selectDb_NoDetection(i, n) ==
  IF i > Len(mechanisms) THEN NULL
  ELSE LET db_type == ToLowerCase(mechanisms[i]) IN
       IF db_type \in {IndexedDbTYPE, WebSqlTYPE, LocalStorageTYPE,
                       SessionStorageTYPE, SimpleStorageTYPE}
         THEN createDbInstance(db_type, n)
         ELSE selectDb_NoDetection(i + 1, n)

\* The loop of connectDatabase over this.mechanisms, from index i on.
RECURSIVE selectDb(_, _)
selectDb(i, n) ==
  IF i > Len(mechanisms) THEN NULL
  ELSE LET db_type == ToLowerCase(mechanisms[i]) IN
       IF \/ db_type = IndexedDbTYPE /\ isSupported(IndexedDbTYPE)
          \/ db_type = WebSqlTYPE /\ isSupported(WebSqlTYPE)
          \/ db_type = LocalStorageTYPE /\ isSupported(LocalStorageTYPE)
          \/ db_type = SessionStorageTYPE /\ isSupported(SessionStorageTYPE)
          \/ db_type = SimpleStorageTYPE
         THEN createDbInstance(db_type, n)
         ELSE selectDb(i + 1, n)

\* The backend instance connectDatabase creates: decided at compile time
\* when the library is built for one browser, from this.mechanisms otherwise.
selectedDb(n) ==
  IF ASSUME_CHROME \/ ASSUME_FIREFOX THEN createDbInstance(IndexedDbTYPE, n)
  ELSE IF ASSUME_SAFARI THEN createDbInstance(WebSqlTYPE, n)
  ELSE selectDb(1, n)

\* ------------------------------------------------------ transaction queue

\* isReady(): !!this.db_ && this.db_.isReady()
isReady(s) == s.db_ # NULL /\ s.dbReady

\* Mutant of pushTxQueue_: on overflow the job just pushed is dropped.
pushTxQueue_DropNewest(s, task) ==
  LET q == Append(s.txQueue_, task) IN
  IF Len(q) > MAX_QUEUE
    THEN [s EXCEPT !.dropped = @ \cup {task.fnc}]
    ELSE [s EXCEPT !.txQueue_ = q]

\* pushTxQueue_: append, then drop the first job when over MAX_QUEUE
pushTxQueue_(s, task) ==
  LET q == Append(s.txQueue_, task) IN
  IF Len(q) > MAX_QUEUE
    THEN [s EXCEPT !.txQueue_ = Tail(q),
                   !.dropped = @ \cup {Head(q).fnc}]
    ELSE [s EXCEPT !.txQueue_ = q]

\* The backend's doTransaction(fnc, names, mode, on_complete): it either
\* starts the transaction, whose on_complete fires later, or throws to its
\* caller (thr) without starting it.
doTransaction(s, task, thr) ==
  IF thr
    THEN [s EXCEPT !.handed = @ \cup {task.fnc}, !.exc = "BackendError"]
    ELSE [s EXCEPT !.handed = @ \cup {task.fnc},
                   !.running = @ \cup {task}]

\* Mutant of transaction: the readiness test is left out of the guard.
transaction_NoReadyTest(s, trFn, store_names, opt_mode, completed_event_handler, thr) ==
  IF store_names = "invalid"
    THEN [s EXCEPT !.exc = "ArgumentException"]
  ELSE
    LET names == IF store_names = "string" THEN "array" ELSE store_names IN
    IF s.in_version_change_tx_
      THEN pushTxQueue_(s, [fnc |-> trFn, scopes |-> names,
                            mode |-> opt_mode,
                            oncompleted |-> completed_event_handler])
    ELSE
      LET mode == IF opt_mode # UNDEFINED THEN opt_mode ELSE READ_ONLY
          s1 == IF mode = VERSION_CHANGE
                  THEN [s EXCEPT !.in_version_change_tx_ = TRUE]
                  ELSE s
      IN doTransaction(s1, [fnc |-> trFn, scopes |-> names, mode |-> mode,
                            oncompleted |-> completed_event_handler], thr)

\* transaction(trFn, store_names, opt_mode, completed_event_handler)
transaction(s, trFn, store_names, opt_mode, completed_event_handler, thr) ==
  IF store_names = "invalid"
    THEN [s EXCEPT !.exc = "ArgumentException"]
  ELSE
    LET names == IF store_names = "string" THEN "array" ELSE store_names
        is_ready == isReady(s)
    IN
    IF ~is_ready \/ s.in_version_change_tx_
      THEN pushTxQueue_(s, [fnc |-> trFn, scopes |-> names,
                            mode |-> opt_mode,
                            oncompleted |-> completed_event_handler])
    ELSE
      LET mode == IF opt_mode # UNDEFINED THEN opt_mode ELSE READ_ONLY
          s1 == IF mode = VERSION_CHANGE
                  THEN [s EXCEPT !.in_version_change_tx_ = TRUE]
                  ELSE s
      IN doTransaction(s1, [fnc |-> trFn, scopes |-> names, mode |-> mode,
                            oncompleted |-> completed_event_handler], thr)

\* Mutant of on_complete: the flag is cleared only when the versionchange
\* transaction ends with COMPLETE.
on_complete_ClearOnSuccess(s, r, type, thr) ==
  LET s1 == [s EXCEPT !.completions =
                 Append(@, [fnc |-> r.fnc, type |-> type, by |-> "tx"])]
      s2 == IF r.mode = VERSION_CHANGE /\ type = COMPLETE
              THEN [s1 EXCEPT !.in_version_change_tx_ = FALSE]
              ELSE s1
  IN IF s2.txQueue_ # <<>>
       THEN LET task == Head(s2.txQueue_) IN
            transaction([s2 EXCEPT !.txQueue_ = Tail(@)],
                        task.fnc, task.scopes, task.mode, task.oncompleted,
                        thr)
       ELSE s2

\* Mutant of on_complete: the queue is not popped after a transaction that
\* ended with ERROR.
on_complete_NoPopOnError(s, r, type, thr) ==
  LET s1 == [s EXCEPT !.completions =
                 Append(@, [fnc |-> r.fnc, type |-> type, by |-> "tx"])]
      s2 == IF r.mode = VERSION_CHANGE
              THEN [s1 EXCEPT !.in_version_change_tx_ = FALSE]
              ELSE s1
  IN IF s2.txQueue_ # <<>> /\ type # ERROR
       THEN LET task == Head(s2.txQueue_) IN
            transaction([s2 EXCEPT !.txQueue_ = Tail(@)],
                        task.fnc, task.scopes, task.mode, task.oncompleted,
                        thr)
       ELSE s2

\* Mutant of popTxQueue_: the task handed to transaction() stays in the
\* queue.
popTxQueue_NoShift(s, thr) ==
  IF s.txQueue_ # <<>>
    THEN LET task == Head(s.txQueue_) IN
         transaction(s, task.fnc, task.scopes, task.mode, task.oncompleted,
                     thr)
    ELSE s

\* popTxQueue_: run the first task of the queue through transaction()
popTxQueue_(s, thr) ==
  IF s.txQueue_ # <<>>
    THEN LET task == Head(s.txQueue_) IN
         transaction([s EXCEPT !.txQueue_ = Tail(@)],
                     task.fnc, task.scopes, task.mode, task.oncompleted, thr)
    ELSE s

\* The on_complete closure transaction() hands to the backend, for the
\* running transaction r ending with the event type.
on_complete(s, r, type, thr) ==
  LET s1 == [s EXCEPT !.completions =
                 Append(@, [fnc |-> r.fnc, type |-> type, by |-> "tx"])]
      s2 == IF r.mode = VERSION_CHANGE
              THEN [s1 EXCEPT !.in_version_change_tx_ = FALSE]
              ELSE s1
  IN popTxQueue_(s2, thr)

\* purgeTxQueue_(e): shift every task and call its oncompleted with ERROR;
\* calling an oncompleted that is undefined throws a TypeError.
RECURSIVE purgeTxQueue_(_)
purgeTxQueue_(s) ==
  IF s.txQueue_ = <<>> THEN s
  ELSE LET task == Head(s.txQueue_)
           s1 == [s EXCEPT !.txQueue_ = Tail(@)]
       IN IF ~task.oncompleted
            THEN [s1 EXCEPT !.exc = "TypeError"]
            ELSE purgeTxQueue_(
                   [s1 EXCEPT !.completions =
                      Append(@, [fnc |-> task.fnc, type |-> ERROR,
                                 by |-> "purge"])])

\* ------------------------------------------------------------------ cursor

\* A JavaScript key as the cursor hands it out: the type of its column and
\* its rank among the keys of that type. A NUMERIC key of rank v is the
\* number v, a TEXT key of rank 0 is the empty string and a TEXT key of a
\* higher rank a longer string, an ARRAY key of rank v is a tuple, the
\* tuples being ranked in their lexicographic order.
NUMERIC == "NUMERIC"
TEXT == "TEXT"
ARRAY == "ARRAY"

\* undefined, where a key or a value is expected
UndefinedKey == [type |-> UNDEFINED, v |-> 0]

UndefinedValue == [id |-> 0, k |-> 0]

\* current_cursor_index_ = NaN, before the first result set. No comparison
\* reads it: hasCursor() tests cursor_ first.
NaN == -1

\* cursor_ = null
NullCursor == [null |-> TRUE, rows |-> <<>>]

\* The sort values of the index column found in the rows of the store.
KeyValues == {0, 1}

\* The cursors are value cursors: a key-only cursor differs in the value of
\* the triple alone, which getValue() leaves undefined.
KeyOnlyOptions == {FALSE}

\* The types of the index the cursor is opened on.
IndexTypes == {NUMERIC, TEXT, ARRAY}

\* store_schema_.getType(): the type of the primary key
PrimaryType == NUMERIC

\* The primary keys of the rows of the store.
PrimaryKeys == 1..MaxRows

\* The stores the cursor is opened on: up to MaxRows rows with the primary
\* keys 1, 2, ..., a row being its primary key (id) and the value of its
\* index column (k).
TableOptions ==
  UNION { {{[id |-> i, k |-> f[i]] : i \in 1..n} : f \in [1..n -> KeyValues]} :
          n \in 0..MaxRows }

\* ydn.db.schema.Index.sql2js(value, type): the column value as a key
sql2js(value, type) == [type |-> type, v |-> value]

\* goog.isDefAndNotNull(key)
isDefAndNotNull(key) == key.type # UNDEFINED

\* The order of the key types: numbers before strings before tuples.
TypeRank(type) ==
  CASE type = NUMERIC -> 1
    [] type = TEXT -> 2
    [] type = ARRAY -> 3
    [] OTHER -> 0

\* ydn.db.cmp(first, second) for two keys: -1, 0 or 1
cmp(first, second) ==
  IF TypeRank(first.type) # TypeRank(second.type)
    THEN IF TypeRank(first.type) < TypeRank(second.type) THEN -1 ELSE 1
  ELSE IF first.v < second.v THEN -1
  ELSE IF first.v > second.v THEN 1
  ELSE 0

\* The truth value JavaScript gives a key in a condition: undefined, the
\* number 0 and the empty string are false, an array is always true.
Truthy(key) ==
  /\ key.type # UNDEFINED
  /\ key.type = ARRAY \/ key.v # 0

\* a != b in JavaScript, for what getIndexKey() returns: two arrays are two
\* objects and never equal, getIndexKey() building a new array at each call.
NotEqual(a, b) ==
  IF a.type = ARRAY /\ b.type = ARRAY THEN TRUE ELSE a # b

\* The column the statement orders by and filters on: the index column for
\* a cursor on an index, the primary key column otherwise.
KeyColumn(row) == IF index_name # "" THEN row.k ELSE row.id

\* ORDER BY key ASC, primary ASC, or both DESC when the cursor is reversed;
\* ORDER BY primary for a cursor on the store.
Before(r1, r2) ==
  LET asc == \/ KeyColumn(r1) < KeyColumn(r2)
             \/ KeyColumn(r1) = KeyColumn(r2) /\ r1.id < r2.id
      desc == \/ KeyColumn(r1) > KeyColumn(r2)
              \/ KeyColumn(r1) = KeyColumn(r2) /\ r1.id > r2.id
  IN IF reverse THEN desc ELSE asc

\* The rows of a set in the order of the statement.
RECURSIVE OrderBy(_)
OrderBy(rs) ==
  IF rs = {} THEN <<>>
  ELSE LET first == CHOOSE r \in rs : \A o \in rs \ {r} : Before(r, o)
       IN <<first>> \o OrderBy(rs \ {first})

\* cursor_.rows.length
Length(c) == Len(c.rows)

\* What reading this.cursor_.rows gives when cursor_ is null: the getter
\* ends with a TypeError and returns nothing.
TypeError == [type |-> "TypeError", v |-> 0]

TypeErrorValue == [id |-> -1, k |-> -1]

\* Mutant of hasCursor: the position at the end of the rows counts as one.
hasCursor_AtLength(c, i) == ~c.null /\ i <= Length(c)

\* hasCursor()
hasCursor(c, i) == ~c.null /\ i < Length(c)

\* getPrimaryKey() with the cursor at position i
getPrimaryKey(c, i) ==
  IF c.null THEN TypeError
  ELSE IF i < Length(c)
    THEN sql2js(c.rows[i + 1].id, PrimaryType)
    ELSE UndefinedKey

\* getIndexKey() with the cursor at position i
getIndexKey(c, i) ==
  IF index_name # ""
    THEN IF c.null THEN TypeError
         ELSE IF i < Length(c)
           THEN sql2js(c.rows[i + 1].k, index_type)
           ELSE UndefinedKey
    ELSE UndefinedKey

\* getValue() with the cursor at position i
getValue(c, i) ==
  IF c.null THEN TypeErrorValue
  ELSE IF i < Length(c)
    THEN IF key_only THEN UndefinedValue ELSE c.rows[i + 1]
    ELSE UndefinedValue

\* getEffectiveKey(): the index key of a cursor on an index, the primary
\* key otherwise
getEffectiveKey(c, i) ==
  IF index_name # "" THEN getIndexKey(c, i) ELSE getPrimaryKey(c, i)

\* The arguments of onSuccess(primary_key, index_key, value) as the getters
\* give them at position i, and the undefined triple.
Triple(c, i) ==
  [primary_key |-> getPrimaryKey(c, i), index_key |-> getIndexKey(c, i),
   value |-> getValue(c, i)]

UndefinedTriple ==
  [primary_key |-> UndefinedKey, index_key |-> UndefinedKey,
   value |-> UndefinedValue]

\* The test both continue operations make on cmp(key, current key), before
\* the loop and in it: the key asked for is not ahead of the cursor.
NotAhead(cmp_) == cmp_ = 0 \/ (cmp_ = 1 /\ reverse) \/ (cmp_ = -1 /\ ~reverse)

\* The type of the keys of the column the statement filters on.
KeyColumnType == IF index_name # "" THEN index_type ELSE PrimaryType

\* A key range: null, or the four fields of IDBKeyRange, a missing bound
\* being undefined.
NullRange ==
  [null |-> TRUE, lower |-> UndefinedKey, upper |-> UndefinedKey,
   lowerOpen |-> FALSE, upperOpen |-> FALSE]

\* ydn.db.IDBKeyRange.bound(lower, upper, lowerOpen, upperOpen)
bound(lower, upper, lowerOpen, upperOpen) ==
  [null |-> FALSE, lower |-> lower, upper |-> upper,
   lowerOpen |-> lowerOpen, upperOpen |-> upperOpen]

\* ydn.db.IDBKeyRange.lowerBound(lower)
lowerBound(lower) ==
  [null |-> FALSE, lower |-> lower, upper |-> UndefinedKey,
   lowerOpen |-> FALSE, upperOpen |-> FALSE]

\* The key ranges a cursor on keys of a type is constructed with: none, and
\* ranges with both bounds, closed and half open.
KeyRangeOptions(type) ==
  { NullRange,
    bound(sql2js(0, type), sql2js(1, type), FALSE, FALSE),
    bound(sql2js(1, type), sql2js(2, type), FALSE, TRUE),
    bound(sql2js(0, type), sql2js(2, type), TRUE, FALSE) }

\* ydn.db.Where.toWhereClause(key_path, type, key_range): the WHERE clause
\* lets through the rows whose key is in the range.
InRange(key, range) ==
  \/ range.null
  \/ /\ \/ ~isDefAndNotNull(range.lower)
        \/ cmp(key, range.lower) = 1
        \/ cmp(key, range.lower) = 0 /\ ~range.lowerOpen
     /\ \/ ~isDefAndNotNull(range.upper)
        \/ cmp(key, range.upper) = -1
        \/ cmp(key, range.upper) = 0 /\ ~range.upperOpen

\* The result set of the SELECT statement open_request() builds for a
\* range: the rows of the store in the range, in the order of the cursor.
executeSql(range) ==
  OrderBy({r \in table : InRange(sql2js(KeyColumn(r), KeyColumnType), range)})

\* No statement is waiting for its answer.
NoRequest ==
  [sql |-> "", range |-> NullRange, ini_key |-> UndefinedKey,
   exclusive |-> FALSE, primary_key |-> UndefinedKey, obj |-> UndefinedValue]

\* The goog.async.Deferred of update() and clear(): none yet, not fired,
\* fired with callback(value) or with errback(error).
NoDeferred == [state |-> "none", value |-> UndefinedKey]

Pending == [state |-> "pending", value |-> UndefinedKey]

callback(value) == [state |-> "callback", value |-> value]

errback == [state |-> "errback", value |-> UndefinedKey]

\* What a handler of the cursor leaves behind: the position, the events it
\* emitted and the exception it ended with ("" when none).
Outcome(i, events, exc) == [index |-> i, emitted |-> events, exc |-> exc]

CursorGone == "InvalidOperationError: cursor gone."
WrongDirection == "InvalidOperationError: wrong direction."

\* Mutant of advance: the position moves by one whatever the step.
advance_StepOne(c, i, step) ==
  IF ~hasCursor(c, i) THEN Outcome(i, <<>>, CursorGone)
  ELSE Outcome(i + 1, <<Triple(c, i + 1)>>, "")

\* advance(step)
advance(c, i, step) ==
  IF ~hasCursor(c, i) THEN Outcome(i, <<>>, CursorGone)
  ELSE Outcome(i + step, <<Triple(c, i + step)>>, "")

\* The loop of continueEffectiveKey(key): n passes at most, i counting them.
RECURSIVE continueEffectiveKeyLoop(_, _, _, _, _)
continueEffectiveKeyLoop(c, key, i, index, cmp_) ==
  IF i >= Length(c) THEN Outcome(index, <<UndefinedTriple>>, "")
  ELSE IF NotAhead(cmp_) THEN Outcome(index, <<Triple(c, index)>>, "")
  ELSE LET eff_key == getEffectiveKey(c, index + 1)
       IN continueEffectiveKeyLoop(c, key, i + 1, index + 1,
            IF isDefAndNotNull(eff_key) THEN cmp(key, eff_key) ELSE 1)

\* Mutant of continueEffectiveKey: the direction of the key is not tested.
continueEffectiveKey_NoDirectionTest(c, index, key) ==
  IF ~hasCursor(c, index) THEN Outcome(index, <<>>, CursorGone)
  ELSE continueEffectiveKeyLoop(c, key, 0, index,
                                cmp(key, getEffectiveKey(c, index)))

\* continueEffectiveKey(key)
continueEffectiveKey(c, index, key) ==
  IF ~hasCursor(c, index) THEN Outcome(index, <<>>, CursorGone)
  ELSE LET cmp_ == cmp(key, getEffectiveKey(c, index))
       IN IF NotAhead(cmp_) THEN Outcome(index, <<>>, WrongDirection)
          ELSE continueEffectiveKeyLoop(c, key, 0, index, cmp_)

\* The loop of continuePrimaryKey(key), index_position being the index key
\* of the position the call found the cursor at.
RECURSIVE continuePrimaryKeyLoop(_, _, _, _, _, _)
continuePrimaryKeyLoop(c, key, index_position, i, index, cmp_) ==
  IF i >= Length(c) THEN Outcome(index, <<UndefinedTriple>>, "")
  ELSE IF NotAhead(cmp_) THEN Outcome(index, <<Triple(c, index)>>, "")
  ELSE IF /\ Truthy(index_position)
          /\ NotEqual(index_position, getIndexKey(c, index + 1))
    THEN Outcome(index + 1, <<Triple(c, index + 1)>>, "")
  ELSE LET eff_key == getPrimaryKey(c, index + 1)
       IN continuePrimaryKeyLoop(c, key, index_position, i + 1, index + 1,
            IF isDefAndNotNull(eff_key) THEN cmp(key, eff_key) ELSE 1)

\* continuePrimaryKey(key)
continuePrimaryKey(c, index, key) ==
  IF ~hasCursor(c, index) THEN Outcome(index, <<>>, CursorGone)
  ELSE LET cmp_ == cmp(key, getPrimaryKey(c, index))
       IN IF NotAhead(cmp_) THEN Outcome(index, <<>>, WrongDirection)
          ELSE continuePrimaryKeyLoop(c, key, getIndexKey(c, index), 0,
                                      index, cmp_)

\* The loop of the onSuccess callback of open_request that skips the rows
\* up to the resume point. At the end of the rows getPrimaryKey() is
\* undefined and ydn.db.cmp is given undefined: it throws (thr), or it
\* returns cmp_undefined. The loop has no other end: when that value keeps
\* it going, the callback never returns.
DataError == "DataError"
NeverReturns == "never returns"

RECURSIVE skipLoop(_, _, _, _, _, _)
skipLoop(c, index, ini_key, exclusive, cmp_undefined, thr) ==
  LET primary_key == getPrimaryKey(c, index) IN
  IF ~isDefAndNotNull(primary_key)
    THEN IF thr THEN Outcome(index, <<>>, DataError)
         ELSE IF cmp_undefined = -1 \/ (cmp_undefined = 0 /\ exclusive)
           THEN Outcome(index, <<>>, NeverReturns)
         ELSE Outcome(index, <<Triple(c, index)>>, "")
  ELSE LET cmp_ == cmp(primary_key, ini_key)
       IN IF cmp_ = -1 \/ (cmp_ = 0 /\ exclusive)
            THEN skipLoop(c, index + 1, ini_key, exclusive, cmp_undefined,
                          thr)
            ELSE Outcome(index, <<Triple(c, index)>>, "")

\* The onSuccess callback of open_request, for the statement req and its
\* result set results.
onSuccess(req, results, cmp_undefined, thr) ==
  LET c == [null |-> FALSE, rows |-> results] IN
  IF index_name # "" /\ isDefAndNotNull(req.ini_key)
    THEN skipLoop(c, 0, req.ini_key, req.exclusive, cmp_undefined, thr)
    ELSE Outcome(0, <<Triple(c, 0)>>, "")

\* The cursor after its constructor: no result set, no statement.
CursorConstructed ==
  /\ cursor_ = NullCursor
  /\ current_cursor_index_ = NaN
  /\ has_pending_request = FALSE
  /\ request = NoRequest
  /\ emitted = <<>>
  /\ cursorError = ""
  /\ df = NoDeferred
  /\ rollback = FALSE

\* A storage object used without a cursor.
NoCursor ==
  /\ table = {}
  /\ index_name = ""
  /\ index_type = NUMERIC
  /\ key_range = NullRange
  /\ reverse = FALSE
  /\ unique = FALSE
  /\ key_only = FALSE
  /\ CursorConstructed

\* ------------------------------------------------------------------ schema

\* What schema.getStore(name) returns when the schema has no such store.
NoStore == [name |-> "", keyPath |-> ""]

\* The store schemas a client passes to addStoreSchema, and the ones a
\* database is constructed with: a store is its name and the rest of its
\* definition, here its key path.
StoreSchemaInputs ==
  { [name |-> "st", keyPath |-> "id"],
    [name |-> "st", keyPath |-> "key"],
    [name |-> "new", keyPath |-> "id"] }

\* The schemas (opt_schema) a storage is constructed with.
SchemaOptions == { {}, {[name |-> "st", keyPath |-> "id"]} }

\* schema.getStore(store_name)
getStore(stores, store_name) ==
  IF \E st \in stores : st.name = store_name
    THEN CHOOSE st \in stores : st.name = store_name
    ELSE NoStore

\* new_store.similar(store): the two agree on every field; no store is
\* similar to a missing one.
similar(new_store, store) == store # NoStore /\ new_store = store

\* schema.addStore(new_store) of an editable schema: the store takes the
\* place of the one of its name, if any.
addStore(stores, new_store) ==
  {st \in stores : st.name # new_store.name} \cup {new_store}

\* ----------------------------------------------------------------- actions

\* A storage object used without a query object: none is constructed.
NoQuery ==
  /\ ir = [store_name |-> ""]
  /\ query = [kind |-> "undefined"]
  /\ sqlError = ""
  /\ objects = {}
  /\ found = [run |-> FALSE]

\* A storage object none of whose stores is read or written.
NoCrud ==
  /\ crudStores = <<>>
  /\ crudRequests = <<>>
  /\ crudResults = <<>>


\* The storage object after its constructor, without a database name:
\* no backend, an empty queue, the flag down.
Constructed ==
  /\ db_ = NULL
  /\ dbReady = FALSE
  /\ connecting = {}
  /\ nconnect = 0
  /\ txQueue_ = <<>>
  /\ in_version_change_tx_ = FALSE
  /\ running = {}
  /\ nsubmit = 0
  /\ handed = {}
  /\ completions = <<>>
  /\ dropped = {}
  /\ failEvents = 0
  /\ openFailed = 0
  /\ lastError = ""
  /\ schemaCalls = <<>>

\* Constructed without opt_schema: an editable schema with no store.
DefaultSchema ==
  /\ auto_schema = TRUE
  /\ schema = {}

\* Constructed without options.Mechanisms, in a browser with IndexedDB and
\* WebSQL.
Init ==
  /\ mechanisms = PREFERENCE
  /\ supported = {IndexedDbTYPE, WebSqlTYPE}
  /\ DefaultSchema
  /\ NoCursor
  /\ Constructed
  /\ NoQuery
  /\ NoCrud

\* Constructed with one of the configured mechanism lists, in one of the
\* environments.
InitSelect ==
  /\ mechanisms \in MechanismOptions
  /\ supported \in SupportOptions
  /\ DefaultSchema
  /\ NoCursor
  /\ Constructed
  /\ NoQuery
  /\ NoCrud

\* connectDatabase(): select a backend and start connecting to it
connectDatabase ==
  LET db == selectedDb(nconnect + 1) IN
  IF db = NULL
    THEN /\ lastError' = "ConstrainError: No storage mechanism found."
         /\ UNCHANGED <<connecting, nconnect>>
    ELSE /\ connecting' = connecting \cup {db}
         /\ nconnect' = nconnect + 1
         /\ lastError' = ""

\* setName(name): throws when a backend is connected, connects otherwise
SetName ==
  /\ nconnect < MaxConnect
  /\ IF db_ # NULL
       THEN /\ lastError' = "Already defined."
            /\ UNCHANGED <<connecting, nconnect>>
       ELSE connectDatabase
  /\ UNCHANGED <<sqlVars, crudVars, cursorVars, schemaVars, mechanisms, supported, db_, dbReady, txQueue_,
                 in_version_change_tx_, running, nsubmit, handed,
                 completions, dropped, failEvents, openFailed>>

\* The errback of db.connect(...): purge the queue, dispatch FAIL. An
\* exception of the purge ends the errback before the event.
ConnectErrback(s) ==
  LET s1 == purgeTxQueue_([s EXCEPT !.exc = ""]) IN
  /\ Store(s1)
  /\ failEvents' = IF s1.exc = "" THEN failEvents + 1 ELSE failEvents
  /\ lastError' = s1.exc

\* db.connect() succeeds: the callback sets db_, pops the queue and
\* dispatches CONNECTED. goog.async.Deferred passes an exception of the
\* callback to the errback that follows it in the chain.
ConnectSuccess(db, thr) ==
  /\ db \in connecting
  /\ connecting' = connecting \ {db}
  /\ LET s == popTxQueue_([Fields EXCEPT !.db_ = db, !.dbReady = TRUE], thr)
     IN IF s.exc = ""
          THEN /\ Store(s)
               /\ lastError' = ""
               /\ UNCHANGED failEvents
          ELSE ConnectErrback(s)
  /\ UNCHANGED <<sqlVars, crudVars, cursorVars, schemaVars, mechanisms, supported, nconnect, nsubmit, openFailed>>

\* db.connect() fails: the errback runs with the reason
ConnectFail(db) ==
  /\ db \in connecting
  /\ connecting' = connecting \ {db}
  /\ openFailed' = openFailed + 1
  /\ ConnectErrback(Fields)
  /\ UNCHANGED <<sqlVars, crudVars, cursorVars, schemaVars, mechanisms, supported, nconnect, nsubmit>>

\* close()
Close ==
  /\ db_ # NULL
  /\ db_' = NULL
  /\ dbReady' = FALSE
  /\ lastError' = ""
  /\ UNCHANGED <<sqlVars, crudVars, cursorVars, schemaVars, mechanisms, supported, connecting, nconnect, txQueue_,
                 in_version_change_tx_, running, nsubmit, handed,
                 completions, dropped, failEvents, openFailed>>

\* The backend loses its connection: db_.isReady() turns false.
Disconnected ==
  /\ db_ # NULL
  /\ dbReady
  /\ dbReady' = FALSE
  /\ lastError' = ""
  /\ UNCHANGED <<sqlVars, crudVars, cursorVars, schemaVars, mechanisms, supported, db_, connecting, nconnect, txQueue_,
                 in_version_change_tx_, running, nsubmit, handed,
                 completions, dropped, failEvents, openFailed>>

\* Mutant of addStoreSchema: the schema is edited whether or not it is
\* editable.
addStoreSchema_NoEditableTest(store_schema) ==
  LET new_store == store_schema
      store == getStore(schema, store_schema.name)
  IN
  IF ~similar(new_store, store)
    THEN /\ schema' = addStore(schema, new_store)
         /\ IF db_ # NULL
              THEN /\ db_' = NULL
                   /\ dbReady' = FALSE
                   /\ connectDatabase
                   /\ schemaCalls' = Append(schemaCalls,
                        [store_schema |-> store_schema,
                         returned |-> IF selectedDb(nconnect + 1) = NULL
                                        THEN "ConstrainError" ELSE "df"])
              ELSE /\ schemaCalls' = Append(schemaCalls,
                        [store_schema |-> store_schema,
                         returned |-> "succeed(false)"])
                   /\ lastError' = ""
                   /\ UNCHANGED <<db_, dbReady, connecting, nconnect>>
    ELSE /\ schemaCalls' = Append(schemaCalls,
              [store_schema |-> store_schema, returned |-> "succeed(false)"])
         /\ lastError' = ""
         /\ UNCHANGED <<schema, db_, dbReady, connecting, nconnect>>

\* addStoreSchema(store_schema). What the call returns is recorded with
\* its argument: "succeed(false)" for goog.async.Deferred.succeed(false),
\* "df" for the deferred connectDatabase() creates and returns, which no
\* code ever fires, and "ConstrainError" for a call that throws.
addStoreSchema(store_schema) ==
  LET new_store == store_schema
      store == getStore(schema, store_schema.name)
  IN
  IF ~similar(new_store, store)
    THEN IF auto_schema
      THEN /\ schema' = addStore(schema, new_store)
           /\ IF db_ # NULL
                THEN /\ db_' = NULL
                     /\ dbReady' = FALSE
                     /\ connectDatabase
                     /\ schemaCalls' = Append(schemaCalls,
                          [store_schema |-> store_schema,
                           returned |-> IF selectedDb(nconnect + 1) = NULL
                                          THEN "ConstrainError" ELSE "df"])
                ELSE /\ schemaCalls' = Append(schemaCalls,
                          [store_schema |-> store_schema,
                           returned |-> "succeed(false)"])
                     /\ lastError' = ""
                     /\ UNCHANGED <<db_, dbReady, connecting, nconnect>>
      ELSE /\ schemaCalls' = Append(schemaCalls,
                [store_schema |-> store_schema, returned |-> "ConstrainError"])
           /\ lastError' = "ConstrainError: Not auto schema generation mode."
           /\ UNCHANGED <<schema, db_, dbReady, connecting, nconnect>>
    ELSE /\ schemaCalls' = Append(schemaCalls,
              [store_schema |-> store_schema, returned |-> "succeed(false)"])
         /\ lastError' = ""
         /\ UNCHANGED <<schema, db_, dbReady, connecting, nconnect>>

\* A client calls addStoreSchema(store_schema).
AddStoreSchema(store_schema) ==
  /\ Len(schemaCalls) < MaxSchemaCalls
  /\ addStoreSchema(store_schema)
  /\ UNCHANGED <<sqlVars, crudVars, cursorVars, auto_schema, mechanisms, supported, txQueue_,
                 in_version_change_tx_, running, nsubmit, handed,
                 completions, dropped, failEvents, openFailed>>

\* A client calls transaction(trFn, store_names, opt_mode, handler); the
\* closure trFn is identified by the number of the call.
Transaction(store_names, opt_mode, handler, thr) ==
  /\ nsubmit < MaxReq
  /\ nsubmit' = nsubmit + 1
  /\ LET s == transaction(Fields, nsubmit + 1, store_names, opt_mode,
                          handler, thr)
     IN /\ Store(s)
        /\ lastError' = s.exc
  /\ UNCHANGED <<sqlVars, crudVars, cursorVars, schemaVars, mechanisms, supported, connecting, nconnect, failEvents,
                 openFailed>>

\* The backend ends the running transaction r and calls its on_complete.
OnComplete(r, type, thr) ==
  /\ r \in running
  /\ LET s == on_complete([Fields EXCEPT !.running = @ \ {r}], r, type, thr)
     IN /\ Store(s)
        /\ lastError' = s.exc
  /\ UNCHANGED <<sqlVars, crudVars, cursorVars, schemaVars, mechanisms, supported, connecting, nconnect, nsubmit,
                 failEvents, openFailed>>

Next ==
  \/ SetName
  \/ \E db \in connecting, thr \in BOOLEAN : ConnectSuccess(db, thr)
  \/ \E db \in connecting : ConnectFail(db)
  \/ Close
  \/ Disconnected
  \/ \E store_names \in StoreNameInputs, opt_mode \in ModeInputs,
        handler \in BOOLEAN, thr \in BOOLEAN :
       Transaction(store_names, opt_mode, handler, thr)
  \/ \E r \in running, type \in TransactionEventTypes, thr \in BOOLEAN :
       OnComplete(r, type, thr)

Spec == Init /\ [][Next]_vars

\* The connection's life alone, over every configured mechanism list.
NextSelect ==
  \/ SetName
  \/ \E db \in connecting, thr \in BOOLEAN : ConnectSuccess(db, thr)
  \/ \E db \in connecting : ConnectFail(db)
  \/ Close
  \/ Disconnected

SpecSelect == InitSelect /\ [][NextSelect]_vars

\* The runs in which the connection becomes ready and stays so, and the
\* backend neither throws out of doTransaction nor withholds an onComplete:
\* the database opens, and every started transaction ends.
NextLive ==
  \/ SetName
  \/ \E db \in connecting : ConnectSuccess(db, FALSE)
  \/ \E store_names \in StoreNameInputs, opt_mode \in ModeInputs,
        handler \in BOOLEAN :
       Transaction(store_names, opt_mode, handler, FALSE)
  \/ \E r \in running, type \in TransactionEventTypes :
       OnComplete(r, type, FALSE)

SpecLive ==
  /\ Init
  /\ [][NextLive]_vars
  /\ WF_vars(SetName)
  /\ WF_vars(\E db \in connecting : ConnectSuccess(db, FALSE))
  /\ WF_vars(\E r \in running, type \in TransactionEventTypes :
               OnComplete(r, type, FALSE))

\* Constructed with one of the schemas, editable or not.
InitSchema ==
  /\ mechanisms = PREFERENCE
  /\ supported = {IndexedDbTYPE, WebSqlTYPE}
  /\ auto_schema \in BOOLEAN
  /\ schema \in SchemaOptions
  /\ NoCursor
  /\ Constructed
  /\ NoQuery
  /\ NoCrud

\* The storage with a client that edits the schema. The requests of the
\* client are read-only transactions on a list of stores, each with a
\* completed handler, and the backend ends each with COMPLETE: the queue is
\* there to be kept or lost by the reconnect, its own rules being checked
\* under Spec.
NextSchema ==
  \/ SetName
  \/ \E db \in connecting : ConnectSuccess(db, FALSE)
  \/ \E db \in connecting : ConnectFail(db)
  \/ \E store_schema \in StoreSchemaInputs : AddStoreSchema(store_schema)
  \/ Transaction("array", UNDEFINED, TRUE, FALSE)
  \/ \E r \in running : OnComplete(r, COMPLETE, FALSE)

\* Every connect() the storage starts succeeds or fails in the end.
SpecSchema ==
  /\ InitSchema
  /\ [][NextSchema]_vars
  /\ WF_vars(\E db \in connecting : ConnectSuccess(db, FALSE) \/ ConnectFail(db))

\* ---------------------------------------------------------- cursor actions

\* A cursor constructed on a store or on its index k, with a key range and
\* one of the four directions, the storage object being left as constructed.
InitCursor ==
  /\ mechanisms = PREFERENCE
  /\ supported = {IndexedDbTYPE, WebSqlTYPE}
  /\ DefaultSchema
  /\ Constructed
  /\ NoQuery
  /\ NoCrud
  /\ table \in TableOptions
  /\ index_name \in {"", "k"}
  /\ index_type \in IF index_name = "" THEN {PrimaryType} ELSE IndexTypes
  /\ key_range \in KeyRangeOptions(KeyColumnType)
  /\ reverse \in BOOLEAN
  /\ unique \in BOOLEAN
  /\ key_only \in KeyOnlyOptions
  /\ CursorConstructed

\* The configuration of the cursor and the store it reads.
cursorConfig ==
  <<table, index_name, index_type, key_range, reverse, unique, key_only>>

\* The callback of a statement whose loop never returns keeps the thread:
\* no other handler runs after it.
Alive == cursorError # NeverReturns

\* A client calls the cursor when no statement of the cursor is waiting for
\* its answer: it acts in the events of the cursor, and has_pending_request
\* is there for it to test.
Idle == Alive /\ ~has_pending_request

\* The rows a client resumes a cursor from: the keys of a row of the store.
ResumePoints ==
  { [effective_key |-> sql2js(KeyColumn(r), KeyColumnType),
     primary_key |-> sql2js(r.id, PrimaryType)] : r \in table }

\* The keys a client continues to: the keys of the column and one key
\* below or above them all.
EffectiveKeyInputs ==
  IF index_name # ""
    THEN {sql2js(v, index_type) : v \in KeyValues \cup {2}}
    ELSE {sql2js(v, PrimaryType) : v \in 0..(MaxRows + 1)}

PrimaryKeyInputs == {sql2js(v, PrimaryType) : v \in 0..(MaxRows + 1)}

\* The steps a client advances by.
StepInputs == {0, 1, 2}

\* A handler that moves within the result set ends with the outcome o.
Moved(o) ==
  /\ current_cursor_index_' = o.index
  /\ emitted' = o.emitted
  /\ cursorError' = o.exc
  /\ rollback' = FALSE
  /\ UNCHANGED <<cursorConfig, cursor_, has_pending_request, request, df>>
  /\ UNCHANGED <<storageVars, schemaVars, sqlVars, crudVars>>

\* A client calls advance(step).
Advance(step) ==
  /\ Idle
  /\ \E o \in {advance(cursor_, current_cursor_index_, step)} : Moved(o)

\* A client calls continueEffectiveKey(key).
ContinueEffectiveKey(key) ==
  /\ Idle
  /\ \E o \in {continueEffectiveKey(cursor_, current_cursor_index_, key)} :
       Moved(o)

\* A client calls continuePrimaryKey(key).
ContinuePrimaryKey(key) ==
  /\ Idle
  /\ \E o \in {continuePrimaryKey(cursor_, current_cursor_index_, key)} :
       Moved(o)

\* open_request(tx, tx_no, ini_key, ini_index_key, exclusive): on an index
\* and with ini_index_key, the lower bound of the range becomes
\* ini_index_key, or the undefined triple is handed to onNext when
\* ini_index_key is at or over the upper bound; the statement is handed to
\* tx.executeSql.
open_request(ini_key, ini_index_key, exclusive) ==
  LET narrowed == index_name # "" /\ isDefAndNotNull(ini_index_key)
      cmp_ == cmp(ini_index_key, key_range.upper)
  IN
  /\ IF narrowed /\ ~key_range.null
          /\ (cmp_ = 1 \/ (cmp_ = 0 /\ ~key_range.upperOpen))
       THEN /\ emitted' = <<UndefinedTriple>>
            /\ UNCHANGED <<has_pending_request, request>>
       ELSE /\ emitted' = <<>>
            /\ has_pending_request' = TRUE
            /\ request' =
                 [NoRequest EXCEPT
                    !.sql = "SELECT",
                    !.range = IF ~narrowed THEN key_range
                              ELSE IF ~key_range.null
                                THEN bound(ini_index_key, key_range.upper,
                                           FALSE, key_range.upperOpen)
                                ELSE lowerBound(ini_index_key),
                    !.ini_key = ini_key,
                    !.exclusive = exclusive]
  /\ cursorError' = ""
  /\ rollback' = FALSE
  /\ UNCHANGED <<cursorConfig, cursor_, current_cursor_index_, df>>
  /\ UNCHANGED <<storageVars, schemaVars, sqlVars, crudVars>>

\* The cursor is opened: open_request(tx, tx_no) without a resume point.
Open ==
  /\ Idle
  /\ cursor_.null
  /\ open_request(UndefinedKey, UndefinedKey, FALSE)

\* A client calls restart(tx, tx_no, effective_key, primary_key).
Restart(effective_key, primary_key) ==
  /\ Idle
  /\ open_request(primary_key, effective_key, TRUE)

\* The part of the configuration no handler of the cursor writes.
cursorSetup == <<index_name, index_type, key_range, reverse, unique, key_only>>

\* The records a client hands to update(): a record for the row of the
\* current primary key, with a value of the index column.
UpdateInputs ==
  { [id |-> getPrimaryKey(cursor_, current_cursor_index_).v, k |-> v] :
      v \in KeyValues }

\* Mutant of Write: a secondary-index selector is not looked at.
Write_NoIdxTest(sql, obj, idx) ==
  /\ Idle
  /\ IF ~hasCursor(cursor_, current_cursor_index_)
       THEN /\ cursorError' = "InvalidAccessError"
            /\ UNCHANGED <<has_pending_request, request, df>>
       ELSE /\ cursorError' = ""
            /\ has_pending_request' = TRUE
            /\ request' =
                 [NoRequest EXCEPT
                    !.sql = sql,
                    !.primary_key =
                       getPrimaryKey(cursor_, current_cursor_index_),
                    !.obj = obj]
            /\ df' = Pending
  /\ emitted' = <<>>
  /\ rollback' = FALSE
  /\ UNCHANGED <<cursorConfig, cursor_, current_cursor_index_>>
  /\ UNCHANGED <<storageVars, schemaVars, sqlVars, crudVars>>

\* update(obj, idx) and clear(tx, tx_no, idx): both throw when the cursor
\* is not active or idx is given; otherwise a REPLACE or a DELETE statement
\* for the row of the current primary key is handed to executeSql and the
\* deferred df is returned.
Write(sql, obj, idx) ==
  /\ Idle
  /\ IF ~hasCursor(cursor_, current_cursor_index_)
       THEN /\ cursorError' = "InvalidAccessError"
            /\ UNCHANGED <<has_pending_request, request, df>>
       ELSE IF idx
         THEN /\ cursorError' = "NotImplementedException"
              /\ UNCHANGED <<has_pending_request, request, df>>
         ELSE /\ cursorError' = ""
              /\ has_pending_request' = TRUE
              /\ request' =
                   [NoRequest EXCEPT
                      !.sql = sql,
                      !.primary_key =
                         getPrimaryKey(cursor_, current_cursor_index_),
                      !.obj = obj]
              /\ df' = Pending
  /\ emitted' = <<>>
  /\ rollback' = FALSE
  /\ UNCHANGED <<cursorConfig, cursor_, current_cursor_index_>>
  /\ UNCHANGED <<storageVars, schemaVars, sqlVars, crudVars>>

\* A client calls update(obj, idx).
Update(obj, idx) == Write("REPLACE", obj, idx)

\* A client calls clear(tx, tx_no, idx).
Clear(idx) == Write("DELETE", UndefinedValue, idx)

\* Mutant of replace: a row that is there is kept (INSERT OR IGNORE).
replace_Ignore(rows, primary_key, obj) ==
  IF \E r \in rows : r.id = primary_key.v
    THEN rows
    ELSE rows \cup {[obj EXCEPT !.id = primary_key.v]}

\* The rows of a store after REPLACE INTO store (columns) VALUES (values),
\* the values being those of obj under the primary key primary_key.
replace(rows, primary_key, obj) ==
  {r \in rows : r.id # primary_key.v} \cup {[obj EXCEPT !.id = primary_key.v]}

\* The rows of a store after DELETE FROM store WHERE primary = primary_key.
delete(rows, primary_key) == {r \in rows : r.id # primary_key.v}

\* results.rowsAffected of the DELETE statement, as a number
rowsAffected(rows, primary_key) ==
  [type |-> NUMERIC, v |-> Cardinality({r \in rows : r.id = primary_key.v})]

\* get(store, key): the record of the store under the primary key, or
\* undefined
get(rows, key) ==
  IF \E r \in rows : r.id = key.v
    THEN CHOOSE r \in rows : r.id = key.v
    ELSE UndefinedValue

\* The statement succeeds: the onSuccess callback of the request runs, that
\* of open_request for a SELECT, that of update for a REPLACE and that of
\* clear for a DELETE.
SqlSuccess(cmp_undefined, thr) ==
  /\ Alive
  /\ has_pending_request
  /\ has_pending_request' = FALSE
  /\ request' = NoRequest
  /\ rollback' = FALSE
  /\ CASE request.sql = "SELECT" ->
            LET results == executeSql(request.range)
                o == onSuccess(request, results, cmp_undefined, thr)
            IN /\ cursor_' = [null |-> FALSE, rows |-> results]
               /\ current_cursor_index_' = o.index
               /\ emitted' = o.emitted
               /\ cursorError' = o.exc
               /\ UNCHANGED <<table, df>>
       [] request.sql = "REPLACE" ->
            /\ table' = replace(table, request.primary_key, request.obj)
            /\ df' = callback(request.primary_key)
            /\ emitted' = <<>>
            /\ cursorError' = ""
            /\ UNCHANGED <<cursor_, current_cursor_index_>>
       [] request.sql = "DELETE" ->
            /\ table' = delete(table, request.primary_key)
            /\ df' = callback(rowsAffected(table, request.primary_key))
            /\ emitted' = <<>>
            /\ cursorError' = ""
            /\ UNCHANGED <<cursor_, current_cursor_index_>>
  /\ UNCHANGED <<cursorSetup, storageVars, schemaVars, sqlVars, crudVars>>

\* Mutant of onError: the callback does not ask for a roll back.
onError_NoRollback(req) ==
  [has_pending_request |-> FALSE,
   cursorError |-> IF req.sql = "SELECT" THEN "SQLError" ELSE "",
   df |-> IF req.sql = "SELECT" THEN df ELSE errback,
   rollback |-> FALSE]

\* The onError callback of the statement req: the statement is no longer
\* pending, the error goes to the error event of the cursor (open_request)
\* or to the deferred (update, clear), and true is returned to roll back.
onError(req) ==
  [has_pending_request |-> FALSE,
   cursorError |-> IF req.sql = "SELECT" THEN "SQLError" ELSE "",
   df |-> IF req.sql = "SELECT" THEN df ELSE errback,
   rollback |-> TRUE]

\* The statement fails: the onError callback of the request runs.
SqlError ==
  /\ Alive
  /\ has_pending_request
  /\ \E o \in {onError(request)} :
       /\ has_pending_request' = o.has_pending_request
       /\ cursorError' = o.cursorError
       /\ df' = o.df
       /\ rollback' = o.rollback
  /\ request' = NoRequest
  /\ emitted' = <<>>
  /\ UNCHANGED <<cursor_, current_cursor_index_>>
  /\ UNCHANGED <<cursorConfig, storageVars, schemaVars, sqlVars, crudVars>>

\* A client that reads: it opens the cursor, moves it and restarts it.
NextCursor ==
  \/ Open
  \/ \E p \in ResumePoints : Restart(p.effective_key, p.primary_key)
  \/ \E cmp_undefined \in {-1, 0, 1}, thr \in BOOLEAN :
       SqlSuccess(cmp_undefined, thr)
  \/ SqlError
  \/ \E step \in StepInputs : Advance(step)
  \/ \E key \in EffectiveKeyInputs : ContinueEffectiveKey(key)
  \/ \E key \in PrimaryKeyInputs : ContinuePrimaryKey(key)

SpecCursor == InitCursor /\ [][NextCursor]_vars

\* A forward cursor constructed on a store or on its numeric index k,
\* without a key range, for a client that writes through it: update() and
\* clear() read the position and the primary key at it, nothing else of the
\* configuration.
InitCursorWrite ==
  /\ mechanisms = PREFERENCE
  /\ supported = {IndexedDbTYPE, WebSqlTYPE}
  /\ DefaultSchema
  /\ Constructed
  /\ NoQuery
  /\ NoCrud
  /\ table \in TableOptions
  /\ index_name \in {"", "k"}
  /\ index_type = NUMERIC
  /\ key_range = NullRange
  /\ reverse = FALSE
  /\ unique = FALSE
  /\ key_only \in KeyOnlyOptions
  /\ CursorConstructed

\* A client that writes: it opens the cursor, steps through the rows, and
\* updates and deletes the row the cursor is at.
NextCursorWrite ==
  \/ Open
  \/ \E cmp_undefined \in {-1, 0, 1}, thr \in BOOLEAN :
       SqlSuccess(cmp_undefined, thr)
  \/ SqlError
  \/ Advance(1)
  \/ \E obj \in UpdateInputs, idx \in BOOLEAN : Update(obj, idx)
  \/ \E idx \in BOOLEAN : Clear(idx)

SpecCursorWrite == InitCursorWrite /\ [][NextCursorWrite]_vars

\* ------------------------------------------------------------- query (IR)

\* ydn.db.Query.Direction
NEXT == "next"
NEXT_UNIQUE == "nextunique"
PREV == "prev"
PREV_UNIQUE == "prevunique"

\* ydn.db.Sql.MapType
SELECT_MANY == "sl"
SELECT == "s1"
EXPRESSION == "ex"

\* ydn.db.Sql.AggregateType, the members the builder sets
COUNT == "ct"
SUM == "sm"
AVERAGE == "av"
MAX == "mx"
MIN == "mn"

\* The JavaScript values a client hands to the builder: undefined, a
\* string, a number, an array of strings, a ydn.math.Expression.
Undefined == [t |-> "undefined"]
Str(s) == [t |-> "string", s |-> s]
Num(n) == [t |-> "number", n |-> n]
Arr(a) == [t |-> "array", a |-> a]
Expression == [t |-> "expression"]

isString(x) == x.t = "string"
isArray(x) == x.t = "array"
isDef(x) == x.t # "undefined"
isNumber(x) == x.t = "number"

\* this.map_ = null and this.reduce_ = null
NullMap == [type |-> "null", field |-> "", fields |-> <<>>]
NullReduce == [type |-> "null", field |-> ""]

\* The query object after its constructor (called without a statement).
\* index and direction are strings, UNDEFINED when not set.
NewSql ==
  [store_name |-> "", wheres_ |-> <<>>, reduce_ |-> NullReduce,
   map_ |-> NullMap, direction |-> UNDEFINED, index |-> UNDEFINED,
   limit_ |-> NaN, offset_ |-> NaN, sql_ |-> ""]

\* What a method of the query leaves behind: the query object, the value
\* it returned (this for the builders that chain) and the exception it
\* ended with ("" when none).
SqlOutcome(q, ret, exc) == [sql |-> q, ret |-> ret, exc |-> exc]

This == [kind |-> "this"]
Nothing == [kind |-> "undefined"]

\* The exceptions the methods of the query throw, with their message.
ArgumentException(message) == "ydn.error.ArgumentException: " \o message
ConstrainError(message) == "ydn.db.ConstrainError: " \o message
InvalidOperationException(message) ==
  "ydn.error.InvalidOperationException: " \o message
NotImplementedException(message) ==
  "ydn.error.NotImplementedException: " \o message
SqlParseError(message) == "ydn.db.SqlParseError: " \o message

\* from(store_name)
from(q, name) == SqlOutcome([q EXCEPT !.store_name = name], This, "")

\* unique(value)
unique_(q, value) ==
  SqlOutcome(
    [q EXCEPT !.direction =
       IF q.direction = NEXT \/ q.direction = NEXT_UNIQUE
         THEN IF value THEN NEXT_UNIQUE ELSE NEXT
         ELSE IF value THEN PREV_UNIQUE ELSE PREV],
    This, "")

\* reverse(value)
reverse_(q, value) ==
  SqlOutcome(
    [q EXCEPT !.direction =
       IF q.direction = NEXT_UNIQUE \/ q.direction = PREV_UNIQUE
         THEN IF value THEN PREV_UNIQUE ELSE NEXT_UNIQUE
         ELSE IF value THEN PREV ELSE NEXT],
    This, "")

\* order(index)
order(q, index_) == SqlOutcome([q EXCEPT !.index = index_], Nothing, "")

\* new ydn.db.Where(field, lower, upper, lowerOpen, upperOpen): a bound
\* that is not given is undefined, and so is its open flag, which counts
\* as false.
Where(field, lower, upper, lowerOpen, upperOpen) ==
  [field |-> field, lower |-> lower, upper |-> upper,
   lowerOpen |-> lowerOpen, upperOpen |-> upperOpen]

\* The value of a where as a key: a number, or undefined.
Value(x) == IF isNumber(x) THEN sql2js(x.n, NUMERIC) ELSE UndefinedKey

\* goog.array.some(this.wheres_, x.field === field)
already(q, field) == \E i \in 1..Len(q.wheres_) : q.wheres_[i].field = field

\* Mutant of where: a field that has a where gets another one.
where_NoAlreadyTest(q, field, op, value, op2, value2) ==
  LET first ==
        IF op \in {"<", "<="}
          THEN Where(field, UndefinedKey, Value(value), FALSE, op = "<")
        ELSE IF op \in {">", ">="}
          THEN Where(field, Value(value), UndefinedKey, op = ">", FALSE)
        ELSE IF op \in {"=", "=="}
          THEN Where(field, Value(value), Value(value), FALSE, FALSE)
        ELSE Where(field, UndefinedKey, UndefinedKey, FALSE, FALSE)
      second ==
        IF op2 \in {"<", "<="}
          THEN [first EXCEPT !.upper = Value(value2), !.upperOpen = op2 = "<"]
        ELSE IF op2 \in {">", ">="}
          THEN [first EXCEPT !.lower = Value(value2), !.lowerOpen = op2 = ">"]
        ELSE first
  IN IF op2 \notin {"<", "<=", ">", ">=", UNDEFINED}
       THEN SqlOutcome(q, Nothing, ArgumentException(op2))
     ELSE SqlOutcome([q EXCEPT !.wheres_ = Append(@, second)], This, "")

\* where(field, op, value, op2, value2)
where(q, field, op, value, op2, value2) ==
  LET first ==
        IF op \in {"<", "<="}
          THEN Where(field, UndefinedKey, Value(value), FALSE, op = "<")
        ELSE IF op \in {">", ">="}
          THEN Where(field, Value(value), UndefinedKey, op = ">", FALSE)
        ELSE IF op \in {"=", "=="}
          THEN Where(field, Value(value), Value(value), FALSE, FALSE)
        ELSE Where(field, UndefinedKey, UndefinedKey, FALSE, FALSE)
      second ==
        IF op2 \in {"<", "<="}
          THEN [first EXCEPT !.upper = Value(value2), !.upperOpen = op2 = "<"]
        ELSE IF op2 \in {">", ">="}
          THEN [first EXCEPT !.lower = Value(value2), !.lowerOpen = op2 = ">"]
        ELSE first
  IN IF already(q, field)
       THEN SqlOutcome(q, Nothing, ArgumentException(field))
     ELSE IF op2 \notin {"<", "<=", ">", ">=", UNDEFINED}
       THEN SqlOutcome(q, Nothing, ArgumentException(op2))
     ELSE SqlOutcome([q EXCEPT !.wheres_ = Append(@, second)], This, "")

\* new ydn.db.Sql.Map(expression, fields)
Map(expression, fields) ==
  [type |-> IF expression # Undefined THEN EXPRESSION
            ELSE IF isString(fields) THEN SELECT ELSE SELECT_MANY,
   field |-> IF isString(fields) THEN fields.s ELSE "",
   fields |-> IF isArray(fields) THEN fields.a ELSE <<>>]

\* String.prototype.toLocaleLowerCase on the method names of the clients
toLocaleLowerCase(str) ==
  CASE str = "COUNT" -> "count"
    [] str = "SUM" -> "sum"
    [] str = "AVG" -> "avg"
    [] str = "MIN" -> "min"
    [] str = "MAX" -> "max"
    [] OTHER -> str

\* Mutant of aggregate: a reduce that is there is replaced.
aggregate_NoReduceTest(q, method, fields) ==
  LET set(type, message) ==
        IF ~isString(fields)
          THEN SqlOutcome(q, Nothing, ArgumentException(message))
        ELSE SqlOutcome([q EXCEPT !.reduce_ = [type |-> type,
                                              field |-> fields.s]], This, "")
      name == IF isString(method) THEN toLocaleLowerCase(method.s) ELSE ""
  IN IF method = Expression
       THEN SqlOutcome([q EXCEPT !.reduce_ = [type |-> EXPRESSION,
                                              field |-> ""]], This, "")
     ELSE IF ~isString(method)
       THEN SqlOutcome(q, Nothing, ArgumentException(""))
     ELSE IF name = "avg" THEN set(AVERAGE, "AVG")
     ELSE IF name = "min" THEN set(MIN, "MIN")
     ELSE IF name = "max" THEN set(MAX, "MAX")
     ELSE IF name = "sum" THEN set(SUM, "SUM")
     ELSE IF name = "count"
       THEN IF isString(fields) THEN set(COUNT, "COUNT")
            ELSE IF isDef(fields)
              THEN SqlOutcome(q, Nothing, ArgumentException("COUNT"))
            ELSE SqlOutcome([q EXCEPT !.reduce_ = [type |-> COUNT,
                                                  field |-> ""]], This, "")
     ELSE SqlOutcome(q, Nothing,
                     ArgumentException("Unknown reduce method: " \o name))

\* aggregate(method, fields). A reduce without a field has the field "".
aggregate(q, method, fields) ==
  LET set(type, message) ==
        IF ~isString(fields)
          THEN SqlOutcome(q, Nothing, ArgumentException(message))
        ELSE SqlOutcome([q EXCEPT !.reduce_ = [type |-> type,
                                              field |-> fields.s]], This, "")
      name == IF isString(method) THEN toLocaleLowerCase(method.s) ELSE ""
  IN IF q.reduce_ # NullReduce
       THEN SqlOutcome(q, Nothing, ArgumentException("too many reduce."))
     ELSE IF method = Expression
       THEN SqlOutcome([q EXCEPT !.reduce_ = [type |-> EXPRESSION,
                                              field |-> ""]], This, "")
     ELSE IF ~isString(method)
       THEN SqlOutcome(q, Nothing, ArgumentException(""))
     ELSE IF name = "avg" THEN set(AVERAGE, "AVG")
     ELSE IF name = "min" THEN set(MIN, "MIN")
     ELSE IF name = "max" THEN set(MAX, "MAX")
     ELSE IF name = "sum" THEN set(SUM, "SUM")
     ELSE IF name = "count"
       THEN IF isString(fields) THEN set(COUNT, "COUNT")
            ELSE IF isDef(fields)
              THEN SqlOutcome(q, Nothing, ArgumentException("COUNT"))
            ELSE SqlOutcome([q EXCEPT !.reduce_ = [type |-> COUNT,
                                                  field |-> ""]], This, "")
     ELSE SqlOutcome(q, Nothing,
                     ArgumentException("Unknown reduce method: " \o name))

\* project(exp_or_fields)
project(q, exp_or_fields) ==
  IF q.map_ # NullMap
    THEN SqlOutcome(q, Nothing, ConstrainError("too many call."))
  ELSE IF exp_or_fields = Expression
    THEN SqlOutcome([q EXCEPT !.map_ = Map(Expression, Undefined)], This, "")
  ELSE IF isString(exp_or_fields) \/ isArray(exp_or_fields)
    THEN SqlOutcome([q EXCEPT !.map_ = Map(Undefined, exp_or_fields)], This, "")
  ELSE SqlOutcome(q, Nothing, ArgumentException(""))

\* limit(value)
limit(q, value) ==
  IF isNumber(value) /\ value.n > 0
    THEN SqlOutcome([q EXCEPT !.limit_ = value.n], Nothing, "")
    ELSE SqlOutcome(q, Nothing, ArgumentException(""))

\* offset(value)
offset(q, value) ==
  IF isNumber(value) /\ value.n >= 0
    THEN SqlOutcome([q EXCEPT !.offset_ = value.n], Nothing, "")
    ELSE SqlOutcome(q, Nothing, ArgumentException(""))

\* ------------------------------------------------------- query (compiler)

\* The store the queries are compiled for: key path id, indexes a and b; a
\* record has one more field, v, that is not indexed.
QueryStore == [name |-> "st", keyPath |-> "id", indexes |-> {"a", "b"}]

NoQueryStore == [name |-> "", keyPath |-> "", indexes |-> {}]

\* The schema handed to the compiler.
QuerySchema == {QueryStore}

\* schema.getStore(store_name) of the schema handed to the compiler
getQueryStore(stores, store_name) ==
  IF \E st \in stores : st.name = store_name
    THEN CHOOSE st \in stores : st.name = store_name
    ELSE NoQueryStore

\* store.hasIndex(field)
hasIndex(store, field) == field \in store.indexes

\* The functions a descriptor carries, by name and argument.
Fn(name, field, fields) == [fn |-> name, field |-> field, fields |-> fields]

NoFn == Fn("", "", <<>>)

\* key_range of a descriptor that has none
NoKeyRange == Where("", UndefinedKey, UndefinedKey, FALSE, FALSE)

\* new ydn.db.req.IdbQuery(store_name, direction, index, key_range)
IdbQuery(store_name_, direction_, index_, key_range_) ==
  [kind |-> "idb", store_name |-> store_name_, direction |-> direction_,
   index |-> index_, key_range |-> key_range_, filters |-> <<>>,
   map |-> NoFn, initial |-> Undefined, reduce |-> NoFn]

\* cursor.processWhereAsFilter(where)
processWhereAsFilter(cursor, where_) ==
  [cursor EXCEPT !.filters = Append(@, where_)]

\* The sequence s without its i-th element (splice(i, 1)).
splice(s, i) == SubSeq(s, 1, i - 1) \o SubSeq(s, i + 1, Len(s))

\* The positions of the wheres of a query whose field is an index of the
\* store.
Sniffed(q, store) ==
  {i \in 1..Len(q.wheres_) : hasIndex(store, q.wheres_[i].field)}

\* The first of a non-empty set of positions.
First(positions) == CHOOSE i \in positions : \A j \in positions : i <= j

\* The filters of the descriptor: the wheres in their order.
RECURSIVE processWheres(_, _, _)
processWheres(cursor, wheres, i) ==
  IF i > Len(wheres) THEN cursor
  ELSE processWheres(processWhereAsFilter(cursor, wheres[i]), wheres, i + 1)

\* The map of the native descriptor, "" when the query has none, and the
\* exception of a map that is an expression.
idbMap(q) ==
  IF q.map_ = NullMap THEN [fn |-> NoFn, exc |-> ""]
  ELSE IF q.map_.type = SELECT /\ q.map_.field # ""
    THEN [fn |-> Fn("mapSelect", q.map_.field, <<>>), exc |-> ""]
  ELSE IF q.map_.type = SELECT_MANY
    THEN [fn |-> Fn("mapSelectMany", "", q.map_.fields), exc |-> ""]
  ELSE [fn |-> NoFn, exc |-> SqlParseError("map")]

\* The reduce of the native descriptor and its initial value.
idbReduce(q) ==
  LET r == q.reduce_
      fold(name, initial, message) ==
        IF r.field # ""
          THEN [fn |-> Fn(name, r.field, <<>>), initial |-> initial,
                exc |-> ""]
          ELSE [fn |-> NoFn, initial |-> Undefined,
                exc |-> SqlParseError(message \o ": " \o q.sql_)]
  IN IF r = NullReduce
       THEN [fn |-> NoFn, initial |-> Undefined, exc |-> ""]
     ELSE IF r.type = SUM THEN fold("reduceSum", Num(0), "SUM")
     ELSE IF r.type = MIN THEN fold("reduceMin", Undefined, "MIN")
     ELSE IF r.type = MAX THEN fold("reduceMax", Undefined, "MAX")
     ELSE IF r.type = AVERAGE
       THEN fold("reduceAverage", Undefined, "AVERAGE")
     ELSE IF r.type = COUNT
       THEN [fn |-> Fn("reduceCount", r.field, <<>>), initial |-> Num(0),
             exc |-> ""]
     ELSE [fn |-> NoFn, initial |-> Undefined, exc |-> SqlParseError(q.sql_)]

\* Mutant of toIdbQuery: without a named index the last where on an index
\* is the one taken for the key range.
toIdbQuery_LastWhere(q, schema_) ==
  LET store == getQueryStore(schema_, q.store_name)
      sniff == q.index = UNDEFINED /\ Sniffed(q, store) # {}
      i == CHOOSE k \in Sniffed(q, store) : \A j \in Sniffed(q, store) : k >= j
      wheres == IF sniff THEN splice(q.wheres_, i) ELSE q.wheres_
      after == [q EXCEPT !.wheres_ = wheres]
      cursor ==
        IF sniff
          THEN IdbQuery(q.store_name,
                        IF q.direction = UNDEFINED THEN NEXT ELSE q.direction,
                        q.wheres_[i].field, q.wheres_[i])
          ELSE IdbQuery(q.store_name, q.direction, q.index, NoKeyRange)
      filtered == processWheres(cursor, wheres, 1)
      m == idbMap(q)
      r == idbReduce(q)
  IN IF q.store_name = ""
       THEN SqlOutcome(q, Nothing,
                       InvalidOperationException("store name not set."))
     ELSE IF store = NoQueryStore
       THEN SqlOutcome(q, Nothing,
                       InvalidOperationException("store: " \o q.store_name
                                                 \o " not found."))
     ELSE IF m.exc # "" THEN SqlOutcome(after, Nothing, m.exc)
     ELSE IF r.exc # "" THEN SqlOutcome(after, Nothing, r.exc)
     ELSE SqlOutcome(after,
            [filtered EXCEPT !.map = m.fn, !.initial = r.initial,
                             !.reduce = r.fn], "")

\* toIdbQuery(schema): the native descriptor. Without a named index the
\* first where on an index of the store becomes index and key range and is
\* taken out of this.wheres_; the wheres left are the filters.
toIdbQuery(q, schema_) ==
  LET store == getQueryStore(schema_, q.store_name)
      sniff == q.index = UNDEFINED /\ Sniffed(q, store) # {}
      i == First(Sniffed(q, store))
      wheres == IF sniff THEN splice(q.wheres_, i) ELSE q.wheres_
      after == [q EXCEPT !.wheres_ = wheres]
      cursor ==
        IF sniff
          THEN IdbQuery(q.store_name,
                        IF q.direction = UNDEFINED THEN NEXT ELSE q.direction,
                        q.wheres_[i].field, q.wheres_[i])
          ELSE IdbQuery(q.store_name, q.direction, q.index, NoKeyRange)
      filtered == processWheres(cursor, wheres, 1)
      m == idbMap(q)
      r == idbReduce(q)
  IN IF q.store_name = ""
       THEN SqlOutcome(q, Nothing,
                       InvalidOperationException("store name not set."))
     ELSE IF store = NoQueryStore
       THEN SqlOutcome(q, Nothing,
                       InvalidOperationException("store: " \o q.store_name
                                                 \o " not found."))
     ELSE IF m.exc # "" THEN SqlOutcome(after, Nothing, m.exc)
     ELSE IF r.exc # "" THEN SqlOutcome(after, Nothing, r.exc)
     ELSE SqlOutcome(after,
            [filtered EXCEPT !.map = m.fn, !.initial = r.initial,
                             !.reduce = r.fn], "")

\* The text of a statement, as the sequence of the pieces the compiler
\* concatenates: a piece of text, or the predicate of a where clause on a
\* column, with the comparison of each bound ("" without one).
Tok(text) == [s |-> text, field |-> "", lower |-> "", upper |-> ""]

Pred(field, lower, upper) ==
  [s |-> "?", field |-> field, lower |-> lower, upper |-> upper]

\* goog.string.quote(x)
quote(x) == "\"" \o x \o "\""

\* fields.join(', ') of the quoted fields
RECURSIVE join(_)
join(fields) ==
  IF fields = <<>> THEN ""
  ELSE IF Len(fields) = 1 THEN quote(fields[1])
  ELSE quote(fields[1]) \o ", " \o join(Tail(fields))

\* where.toWhereClause(): the predicate of the where on its column and the
\* parameters it binds, lower bound first; a where with two equal closed
\* bounds is an equality with one parameter.
toWhereClause(w) ==
  LET lower == isDefAndNotNull(w.lower)
      upper == isDefAndNotNull(w.upper)
  IN IF lower /\ upper /\ w.lower = w.upper /\ ~w.lowerOpen /\ ~w.upperOpen
       THEN [sql |-> Pred(w.field, "=", ""), params |-> <<w.lower>>]
     ELSE [sql |-> Pred(w.field,
                        IF ~lower THEN "" ELSE IF w.lowerOpen THEN ">" ELSE ">=",
                        IF ~upper THEN "" ELSE IF w.upperOpen THEN "<" ELSE "<="),
           params |-> (IF lower THEN <<w.lower>> ELSE <<>>)
                      \o (IF upper THEN <<w.upper>> ELSE <<>>)]

\* new ydn.db.req.SqlQuery(store_name)
SqlQuery(store_name_) ==
  [kind |-> "sql", store_name |-> store_name_, sql |-> <<>>, params |-> <<>>,
   filters |-> <<>>, parseRow |-> "", map |-> NoFn, finalize |-> NoFn]

\* this.direction is one of the two unique directions
distinct(q) == q.direction = PREV_UNIQUE \/ q.direction = NEXT_UNIQUE

\* The part of the select list the map of the query adds, with the map of
\* the descriptor.
sqlMap(q) ==
  LET m == q.map_
      fs == IF m.type = SELECT THEN <<m.field>> ELSE m.fields
  IN IF m = NullMap THEN [select |-> <<>>, fn |-> NoFn, exc |-> ""]
     ELSE IF m.type = SELECT_MANY \/ m.type = SELECT
       THEN [select |-> <<Tok("SELECT (" \o join(fs) \o ")")>>,
             fn |-> IF m.type = SELECT
                      THEN Fn("mapSelect", m.field, <<>>)
                      ELSE Fn("mapSelectMany", "", m.fields),
             exc |-> ""]
     ELSE [select |-> <<>>, fn |-> NoFn,
           exc |-> NotImplementedException("map in " \o q.sql_)]

\* The part of the select list the reduce of the query adds.
sqlReduce(q) ==
  LET r == q.reduce_
      call(name) ==
        <<Tok("SELECT " \o name \o " (")>>
        \o (IF distinct(q) THEN <<Tok("DISTINCT ")>> ELSE <<>>)
        \o <<Tok(IF r.field # "" THEN quote(r.field) ELSE "*"), Tok(")")>>
  IN IF r = NullReduce THEN [select |-> <<>>, exc |-> ""]
     ELSE IF r.type = COUNT THEN [select |-> call("COUNT"), exc |-> ""]
     ELSE IF r.type = SUM THEN [select |-> call("SUM"), exc |-> ""]
     ELSE IF r.type = AVERAGE THEN [select |-> call("AVG"), exc |-> ""]
     ELSE [select |-> <<>>,
           exc |-> SqlParseError(r.type \o " in " \o q.sql_)]

\* The loop of toSqlQuery over the wheres, from the i-th on: a where on an
\* index adds its predicate to the WHERE clause and its parameters to the
\* descriptor, another where becomes a filter of the descriptor.
RECURSIVE sqlWheres(_, _, _, _, _)
sqlWheres(cursor, where_, wheres, store, i) ==
  IF i > Len(wheres) THEN [cursor |-> cursor, where |-> where_]
  ELSE IF hasIndex(store, wheres[i].field)
    THEN LET where_clause == toWhereClause(wheres[i])
         IN sqlWheres([cursor EXCEPT !.params = @ \o where_clause.params],
                      where_ \o <<Tok(IF where_ # <<>> THEN " AND "
                                                        ELSE "WHERE "),
                                  where_clause.sql>>,
                      wheres, store, i + 1)
    ELSE sqlWheres(processWhereAsFilter(cursor, wheres[i]), where_, wheres,
                   store, i + 1)

\* Mutant of toSqlQuery: every where goes to the WHERE clause.
toSqlQuery_NoFilters(q, schema_) ==
  LET store == getQueryStore(schema_, q.store_name)
      all == [store EXCEPT !.indexes = {"a", "b", "v"}]
      m == sqlMap(q)
      r == sqlReduce(q)
      select ==
        IF m.select \o r.select # <<>> THEN m.select \o r.select
        ELSE <<Tok("SELECT *")>>
             \o (IF distinct(q) THEN <<Tok(" DISTINCT")>> ELSE <<>>)
      reduced == q.reduce_ # NullReduce
      cursor ==
        [SqlQuery(q.store_name) EXCEPT
           !.parseRow = IF q.map_ # NullMap \/ reduced
                          THEN "parseRowIdentity" ELSE "",
           !.map = IF reduced THEN Fn("takeFirst", "", <<>>) ELSE m.fn,
           !.finalize = IF reduced THEN Fn("finalizeTakeFirst", "", <<>>)
                        ELSE NoFn]
      w == sqlWheres(cursor, <<>>, q.wheres_, all, 1)
      field_name ==
        IF q.index # UNDEFINED THEN quote(q.index)
        ELSE IF store.keyPath # "" THEN quote(store.keyPath)
        ELSE "_ROWID_"
      order_ ==
        <<Tok("ORDER BY " \o field_name),
          Tok(IF q.direction = PREV \/ q.direction = PREV_UNIQUE
                THEN " DESC" ELSE " ASC")>>
      range ==
        (IF q.limit_ # NaN THEN <<Tok(" LIMIT " \o ToString(q.limit_))>>
         ELSE <<>>)
        \o (IF q.offset_ # NaN
              THEN <<Tok(" OFFSET " \o ToString(q.offset_))>> ELSE <<>>)
  IN IF q.sql_ # ""
       THEN SqlOutcome(q, Nothing,
                       NotImplementedException("SQL parser not implement"))
     ELSE IF q.store_name = ""
       THEN SqlOutcome(q, Nothing,
                       InvalidOperationException("store name not set."))
     ELSE IF store = NoQueryStore
       THEN SqlOutcome(q, Nothing,
                       InvalidOperationException("store: " \o q.store_name
                                                 \o " not found."))
     ELSE IF m.exc # "" THEN SqlOutcome(q, Nothing, m.exc)
     ELSE IF r.exc # "" THEN SqlOutcome(q, Nothing, r.exc)
     ELSE SqlOutcome(q,
            [w.cursor EXCEPT
               !.sql = select \o <<Tok(" "), Tok("FROM " \o quote(q.store_name)),
                                   Tok(" ")>>
                       \o w.where \o <<Tok(" ")>> \o order_ \o <<Tok(" ")>>
                       \o range],
            "")

\* toSqlQuery(schema): the descriptor of the statement. The select list,
\* FROM, the WHERE clause of the wheres on an index, ORDER BY on the named
\* index or on the key path, LIMIT and OFFSET.
toSqlQuery(q, schema_) ==
  LET store == getQueryStore(schema_, q.store_name)
      m == sqlMap(q)
      r == sqlReduce(q)
      select ==
        IF m.select \o r.select # <<>> THEN m.select \o r.select
        ELSE <<Tok("SELECT *")>>
             \o (IF distinct(q) THEN <<Tok(" DISTINCT")>> ELSE <<>>)
      reduced == q.reduce_ # NullReduce
      cursor ==
        [SqlQuery(q.store_name) EXCEPT
           !.parseRow = IF q.map_ # NullMap \/ reduced
                          THEN "parseRowIdentity" ELSE "",
           !.map = IF reduced THEN Fn("takeFirst", "", <<>>) ELSE m.fn,
           !.finalize = IF reduced THEN Fn("finalizeTakeFirst", "", <<>>)
                        ELSE NoFn]
      w == sqlWheres(cursor, <<>>, q.wheres_, store, 1)
      field_name ==
        IF q.index # UNDEFINED THEN quote(q.index)
        ELSE IF store.keyPath # "" THEN quote(store.keyPath)
        ELSE "_ROWID_"
      order_ ==
        <<Tok("ORDER BY " \o field_name),
          Tok(IF q.direction = PREV \/ q.direction = PREV_UNIQUE
                THEN " DESC" ELSE " ASC")>>
      range ==
        (IF q.limit_ # NaN THEN <<Tok(" LIMIT " \o ToString(q.limit_))>>
         ELSE <<>>)
        \o (IF q.offset_ # NaN
              THEN <<Tok(" OFFSET " \o ToString(q.offset_))>> ELSE <<>>)
  IN IF q.sql_ # ""
       THEN SqlOutcome(q, Nothing,
                       NotImplementedException("SQL parser not implement"))
     ELSE IF q.store_name = ""
       THEN SqlOutcome(q, Nothing,
                       InvalidOperationException("store name not set."))
     ELSE IF store = NoQueryStore
       THEN SqlOutcome(q, Nothing,
                       InvalidOperationException("store: " \o q.store_name
                                                 \o " not found."))
     ELSE IF m.exc # "" THEN SqlOutcome(q, Nothing, m.exc)
     ELSE IF r.exc # "" THEN SqlOutcome(q, Nothing, r.exc)
     ELSE SqlOutcome(q,
            [w.cursor EXCEPT
               !.sql = select \o <<Tok(" "), Tok("FROM " \o quote(q.store_name)),
                                   Tok(" ")>>
                       \o w.where \o <<Tok(" ")>> \o order_ \o <<Tok(" ")>>
                       \o range],
            "")

\* -------------------------------------------------------- query (backends)

\* The query has not been run.
NotRun == [run |-> FALSE]

\* What the SQL backend hands back: the rows, or the error of a statement
\* it refused.
Rows(rows) == [rows |-> rows, exc |-> ""]

SqlSyntaxError == [rows |-> <<>>, exc |-> "SQLITE_ERROR"]

\* The records the store of the query can hold: three records with
\* different values on the index b, two of them with the same value on the
\* index a.
QueryObjects ==
  { [id |-> 1, a |-> 1, b |-> 2, v |-> 1],
    [id |-> 2, a |-> 1, b |-> 0, v |-> 0],
    [id |-> 3, a |-> 2, b |-> 1, v |-> 1] }

\* The columns of the table of the store.
Columns == {"id", "a", "b", "v"}

\* The value of a record on a field, as a key.
KeyOf(object, field) == sql2js(object[field], NUMERIC)

\* The key is within the bounds of the where.
contains(w, key) ==
  /\ isDefAndNotNull(w.lower) =>
       IF w.lowerOpen THEN cmp(key, w.lower) > 0 ELSE cmp(key, w.lower) >= 0
  /\ isDefAndNotNull(w.upper) =>
       IF w.upperOpen THEN cmp(key, w.upper) < 0 ELSE cmp(key, w.upper) <= 0

\* The filters of a descriptor, evaluated on a record.
passes(filters, object) ==
  \A k \in 1..Len(filters) :
    contains(filters[k], KeyOf(object, filters[k].field))

\* The records of a set in the order of a column, ascending or descending,
\* records with the same value of the column in the order of their primary
\* keys.
inOrder(set, column, desc) ==
  LET less(m, n) == IF desc THEN m > n ELSE m < n
      before(x, y) ==
        IF x[column] # y[column] THEN less(x[column], y[column])
        ELSE less(x.id, y.id)
  IN CHOOSE seq \in [1..Cardinality(set) -> set] :
       \A i, j \in 1..Cardinality(set) : i < j => before(seq[i], seq[j])

\* The native backend runs a descriptor: it walks the index of the
\* descriptor, or the store by primary key, within the key range and in the
\* direction of the descriptor, and hands on the records that pass the
\* filters.
fetchIdb(cursor, set) ==
  LET column == IF cursor.index = UNDEFINED THEN "id" ELSE cursor.index
      desc == cursor.direction \in {PREV, PREV_UNIQUE}
      range == {o \in set : cursor.key_range = NoKeyRange
                             \/ contains(cursor.key_range, KeyOf(o, column))}
  IN SelectSeq(inOrder(range, column, desc),
               LAMBDA o : passes(cursor.filters, o))

\* The number a LIMIT or OFFSET piece of a statement names, NaN without
\* such a piece.
numberAfter(sql, word) ==
  LET named == {n \in 0..MaxRows :
                 \E k \in 1..Len(sql) : sql[k] = Tok(word \o ToString(n))}
  IN IF named = {} THEN NaN ELSE CHOOSE n \in named : TRUE

\* The predicates of the statement with the parameters bound to them: the
\* k-th predicate takes the parameters that follow those of the predicates
\* before it, the one of its lower bound first.
RECURSIVE bind(_, _)
bind(predicates, params) ==
  IF predicates = <<>> THEN <<>>
  ELSE LET p == predicates[1]
           n == (IF p.lower # "" THEN 1 ELSE 0) + (IF p.upper # "" THEN 1 ELSE 0)
       IN <<[p |-> p, params |-> SubSeq(params, 1, n)]>>
          \o bind(Tail(predicates), SubSeq(params, n + 1, Len(params)))

\* A predicate with its parameters, evaluated on a row.
holds(b, row) ==
  LET key == KeyOf(row, b.p.field)
      first == b.params[1]
      last == b.params[Len(b.params)]
  IN /\ b.p.lower = "=" => cmp(key, first) = 0
     /\ b.p.lower = ">" => cmp(key, first) > 0
     /\ b.p.lower = ">=" => cmp(key, first) >= 0
     /\ b.p.upper = "<" => cmp(key, last) < 0
     /\ b.p.upper = "<=" => cmp(key, last) <= 0

\* The SQL backend runs a descriptor: the rows of the table the WHERE
\* clause holds of, in the order of the ORDER BY column, from the OFFSET on
\* and at most LIMIT of them, and of these the ones that pass the filters
\* of the descriptor, which are evaluated on the rows the statement returns. A statement with OFFSET and without LIMIT is refused.
fetchSql(cursor, set) ==
  LET sql == cursor.sql
      preds == bind(SelectSeq(sql, LAMBDA t : t.field # ""), cursor.params)
      rows == {o \in set : \A k \in 1..Len(preds) : holds(preds[k], o)}
      column == CHOOSE c \in Columns :
                  \E k \in 1..Len(sql) : sql[k] = Tok("ORDER BY " \o quote(c))
      desc == \E k \in 1..Len(sql) : sql[k] = Tok(" DESC")
      ordered == inOrder(rows, column, desc)
      LIMIT == numberAfter(sql, " LIMIT ")
      OFFSET == numberAfter(sql, " OFFSET ")
      start == IF OFFSET = NaN THEN 1 ELSE OFFSET + 1
      end == IF LIMIT = NaN \/ start + LIMIT - 1 > Len(ordered)
               THEN Len(ordered) ELSE start + LIMIT - 1
  IN IF OFFSET # NaN /\ LIMIT = NaN THEN SqlSyntaxError
     ELSE Rows(SelectSeq(SubSeq(ordered, start, end),
                         LAMBDA o : passes(cursor.filters, o)))

\* ---------------------------------------------------------- query actions

\* A query object just constructed, the storage object and the cursor being
\* left as constructed.
InitSql ==
  /\ mechanisms = PREFERENCE
  /\ supported = {IndexedDbTYPE, WebSqlTYPE}
  /\ DefaultSchema
  /\ NoCursor
  /\ Constructed
  /\ ir = NewSql
  /\ query = Nothing
  /\ sqlError = ""
  /\ objects = {}
  /\ found = NotRun
  /\ NoCrud

\* A method of the query ends with the outcome o. What an earlier run of
\* the query returned is dropped.
Called(o) ==
  /\ ir' = o.sql
  /\ query' = o.ret
  /\ sqlError' = o.exc
  /\ found' = NotRun
  /\ UNCHANGED <<objects, storageVars, schemaVars, cursorVars, crudVars>>

\* The arguments of the where() calls of the clients: ranges on the two
\* indexes a and b and on the field v, and a call with a second operator
\* that is none.
WhereInputs ==
  { <<"a", ">", Num(0), "<", Num(2)>>,
    <<"a", "=", Num(0), "!=", Num(1)>>,
    <<"b", "<=", Num(1), UNDEFINED, Undefined>>,
    <<"v", "=", Num(1), UNDEFINED, Undefined>> }

\* The arguments of the aggregate() calls: the five methods, an unknown
\* one, a method that is no string and a method without its field.
AggregateInputs ==
  { <<Str("COUNT"), Undefined>>, <<Str("sum"), Str("a")>>,
    <<Str("avg"), Str("a")>>, <<Str("min"), Str("a")>>,
    <<Str("max"), Str("a")>>, <<Str("median"), Str("a")>>,
    <<Num(1), Undefined>>, <<Str("sum"), Undefined>> }

\* The arguments of the project() calls: a field, a list of fields, an
\* expression, and a value that is none of them.
ProjectInputs == {Str("a"), Arr(<<"a", "v">>), Expression, Num(1)}

From(name) == Called(from(ir, name))

Unique(value) == Called(unique_(ir, value))

Reverse(value) == Called(reverse_(ir, value))

Order(index_) == Called(order(ir, index_))

WhereClause(field, op, value, op2, value2) ==
  Called(where(ir, field, op, value, op2, value2))

Aggregate(method, fields) == Called(aggregate(ir, method, fields))

Project(exp_or_fields) == Called(project(ir, exp_or_fields))

Limit(value) == Called(limit(ir, value))

Offset(value) == Called(offset(ir, value))

ToIdbQuery == Called(toIdbQuery(ir, QuerySchema))

ToSqlQuery == Called(toSqlQuery(ir, QuerySchema))

\* The client has named the store of its query.
Named == ir.store_name # ""

\* A client that names the store of its query before it builds the rest of
\* it, and compiles it for either backend, when and as often as it likes.
NextSql ==
  \/ From("st")
  \/ Named /\ \E value \in BOOLEAN : Unique(value)
  \/ Named /\ \E value \in BOOLEAN : Reverse(value)
  \/ Named /\ Order("b")
  \/ Named /\ \E w \in WhereInputs : WhereClause(w[1], w[2], w[3], w[4], w[5])
  \/ Named /\ \E a \in AggregateInputs : Aggregate(a[1], a[2])
  \/ Named /\ \E exp_or_fields \in ProjectInputs : Project(exp_or_fields)
  \/ ToIdbQuery
  \/ ToSqlQuery

SpecSql == InitSql /\ [][NextSql]_vars

\* A query object just constructed, over a store that holds some of the
\* records.
InitSqlRun ==
  /\ mechanisms = PREFERENCE
  /\ supported = {IndexedDbTYPE, WebSqlTYPE}
  /\ DefaultSchema
  /\ NoCursor
  /\ Constructed
  /\ ir = NewSql
  /\ query = Nothing
  /\ sqlError = ""
  /\ objects \in SUBSET QueryObjects
  /\ found = NotRun
  /\ NoCrud

\* The arguments of the limit() and offset() calls.
RangeInputs == {Num(0), Num(1), Undefined}

\* The query is compiled for the two backends, each from the query as it
\* is, and each backend runs its descriptor on the records of the store.
Run ==
  LET idb == toIdbQuery(ir, QuerySchema)
      sql == toSqlQuery(ir, QuerySchema)
  IN /\ idb.exc = ""
     /\ sql.exc = ""
     /\ found' = [run |-> TRUE, idb |-> fetchIdb(idb.ret, objects),
                  sql |-> fetchSql(sql.ret, objects)]
     /\ UNCHANGED <<ir, query, sqlError, objects>>
     /\ UNCHANGED <<storageVars, schemaVars, cursorVars, crudVars>>

\* A client that names the store of its query, orders it, bounds it with
\* wheres, a limit and an offset, and has it run by the two backends.
NextSqlRun ==
  \/ From("st")
  \/ Named /\ \E value \in BOOLEAN : Reverse(value)
  \/ Named /\ Order("b")
  \/ Named /\ \E w \in WhereInputs : WhereClause(w[1], w[2], w[3], w[4], w[5])
  \/ Named /\ \E value \in RangeInputs : Limit(value)
  \/ Named /\ \E value \in RangeInputs : Offset(value)
  \/ Run

SpecSqlRun == InitSqlRun /\ [][NextSqlRun]_vars

\* ---------------------------------------------------------- query (reduce)

\* The longest sequence of records a reduce is folded over.
MaxFold == 4

\* The values of the field a of the records that are folded.
Prices == {-1, 1, 2, 3, 4}

\* ydn.db.Sql.reduceCount(field)(curr, prev)
reduceCount(field, curr, prev, i) == Num(prev.n + 1)

\* Mutant of reduceSum: the value of the record replaces the sum so far.
reduceSum_Last(field, curr, prev, i) == Num(curr[field])

\* ydn.db.Sql.reduceSum(field)(curr, prev, i)
reduceSum(field, curr, prev, i) == Num(prev.n + curr[field])

\* ydn.db.Sql.reduceMin(field)(curr, prev, i)
reduceMin(field, curr, prev, i) ==
  LET x == curr[field]
  IN IF ~isDef(prev) THEN Num(x)
     ELSE IF prev.n < x THEN prev ELSE Num(x)

\* ydn.db.Sql.reduceMax(field)(curr, prev, i)
reduceMax(field, curr, prev, i) ==
  LET x == curr[field]
  IN IF ~isDef(prev) THEN Num(x)
     ELSE IF prev.n > x THEN prev ELSE Num(x)

\* The reduce functions whose values are whole numbers; the mean of
\* reduceAverage is not one.
Folded == {"reduceCount", "reduceSum", "reduceMin", "reduceMax"}

\* cursor.reduce(curr, prev, i) of a descriptor
reduce(cursor, curr, prev, i) ==
  CASE cursor.reduce.fn = "reduceCount" ->
         reduceCount(cursor.reduce.field, curr, prev, i)
    [] cursor.reduce.fn = "reduceSum" ->
         reduceSum(cursor.reduce.field, curr, prev, i)
    [] cursor.reduce.fn = "reduceMin" ->
         reduceMin(cursor.reduce.field, curr, prev, i)
    [] cursor.reduce.fn = "reduceMax" ->
         reduceMax(cursor.reduce.field, curr, prev, i)

\* A query object just constructed, and the records the native cursor
\* will walk, in its order.
InitReduce ==
  /\ mechanisms = PREFERENCE
  /\ supported = {IndexedDbTYPE, WebSqlTYPE}
  /\ DefaultSchema
  /\ NoCursor
  /\ Constructed
  /\ ir = NewSql
  /\ query = Nothing
  /\ sqlError = ""
  /\ objects \in UNION { [1..n -> {[a |-> p] : p \in Prices}] :
                          n \in 0..MaxFold }
  /\ found = NotRun
  /\ NoCrud

\* The native cursor hands the next record to the reduce of the
\* descriptor: the first call gets the initial value of the descriptor, a
\* later one what the call before returned, and each the number of records
\* handed over before.
Iterate ==
  LET i == IF found.run THEN found.i ELSE 0
      prev == IF found.run THEN found.prev ELSE query.initial
  IN /\ query.kind = "idb"
     /\ query.reduce.fn \in Folded
     /\ i < Len(objects)
     /\ found' = [run |-> TRUE, i |-> i + 1,
                  prev |-> reduce(query, objects[i + 1], prev, i)]
     /\ UNCHANGED <<ir, query, sqlError, objects>>
     /\ UNCHANGED <<storageVars, schemaVars, cursorVars, crudVars>>

\* A client that builds a query with a reduce and compiles it for the
\* native backend, which folds the reduce over the records.
NextReduce ==
  \/ From("st")
  \/ Named /\ \E a \in AggregateInputs : Aggregate(a[1], a[2])
  \/ ToIdbQuery
  \/ Iterate

SpecReduce == InitReduce /\ [][NextReduce]_vars

\* ---------------------------------------------------------------- requests

\* Number of transaction() calls made for the requests of one behaviour.
MaxCrud == 3

\* Number of transaction() calls made where the order of the requests is
\* followed: the three requests of one turn and one more.
MaxOrdered == 4

\* The schema of CrudJstest: three stores with the in-line key id.
CrudStoreNames == <<"st", "st2", "st3">>

CrudSchema == {[name |-> CrudStoreNames[i], keyPath |-> "id"] : i \in 1..3}

\* ydn.db.base.TransactionMode.READ_WRITE
READ_WRITE == "readwrite"

\* The elements of a list.
Elements(list) == {list[i] : i \in 1..Len(list)}

\* A request of a client: the method called on the storage, the stores it
\* names (none for clear() without arguments), the key it reads or the
\* record it writes, and the mode of its transaction.
Request(method, store_names, key, value, mode) ==
  [method |-> method, store_names |-> store_names, key |-> key,
   value |-> value, mode |-> mode]

\* What a request resolves to: undefined, a record, a key, a number, or an
\* error of a name.
NoRecord == [id |-> 0, value |-> ""]

resolve(kind, n, record) == [kind |-> kind, n |-> n, record |-> record]

\* The records of a store with a primary key.
WithKey(store, key) == {r \in store : r.id = key}

\* put(store, record): the record takes the place of the one of its key, if
\* any; resolves to the key.
dbPut(stores, store_name, record) ==
  [stores |-> [stores EXCEPT ![store_name] =
                 (@ \ WithKey(@, record.id)) \cup {record}],
   result |-> resolve("key", record.id, NoRecord)]

\* Mutant of dbAdd: a record of the same key is replaced.
dbAdd_Upsert(stores, store_name, record) ==
  dbPut(stores, store_name, record)

\* add(store, record): insert only; with a record of the same key in the
\* store it resolves to a ConstraintError and writes nothing.
dbAdd(stores, store_name, record) ==
  IF WithKey(stores[store_name], record.id) # {}
    THEN [stores |-> stores,
          result |-> resolve("ConstraintError", 0, NoRecord)]
    ELSE [stores |-> [stores EXCEPT ![store_name] = @ \cup {record}],
          result |-> resolve("key", record.id, NoRecord)]

\* get(store, key): the record of the key, or undefined
dbGet(stores, store_name, key) ==
  [stores |-> stores,
   result |-> IF WithKey(stores[store_name], key) # {}
                THEN resolve("record", 0,
                       CHOOSE r \in stores[store_name] : r.id = key)
                ELSE resolve("undefined", 0, NoRecord)]

\* The stores clear(store | store[] | nothing) clears: the named ones, or
\* every store of the schema.
Cleared(store_names) ==
  IF store_names = <<>> THEN {st.name : st \in schema}
                        ELSE Elements(store_names)

\* Mutant of dbClear: the call resolves to the number of records removed.
dbClear_CountRecords(stores, store_names) ==
  [stores |-> [n \in DOMAIN stores |->
                 IF n \in Cleared(store_names) THEN {} ELSE stores[n]],
   result |-> resolve("number",
                Cardinality(UNION {stores[n] : n \in Cleared(store_names)}),
                NoRecord)]

\* clear(store | store[] | nothing): the records of the stores are deleted;
\* resolves to the number of stores cleared.
dbClear(stores, store_names) ==
  [stores |-> [n \in DOMAIN stores |->
                 IF n \in Cleared(store_names) THEN {} ELSE stores[n]],
   result |-> resolve("number", Cardinality(Cleared(store_names)),
                       NoRecord)]

\* The closure of a request runs in its transaction.
execute(stores, req) ==
  CASE req.method = "put" -> dbPut(stores, req.store_names[1], req.value)
    [] req.method = "add" -> dbAdd(stores, req.store_names[1], req.value)
    [] req.method = "get" -> dbGet(stores, req.store_names[1], req.key)
    [] req.method = "clear" -> dbClear(stores, req.store_names)

\* The state a handler of the storage works on: the fields of the storage
\* (s), the records of the stores and the results delivered so far.
Crud == [s |-> Fields, stores |-> crudStores, results |-> crudResults]

\* The backend runs the transactions in the order they were handed to it:
\* after a call that took the storage from c.s to s, the closure of the
\* request it handed to doTransaction, if any, has run on the stores.
started(c, s, requests) ==
  IF s.handed = c.s.handed THEN [c EXCEPT !.s = s]
  ELSE LET fnc == CHOOSE id \in s.handed : id \notin c.s.handed
           e == execute(c.stores, requests[fnc])
       IN [s |-> s, stores |-> e.stores,
           results |-> Append(c.results, [fnc |-> fnc, result |-> e.result])]

\* The shape of the store_names a request passes to transaction(): the
\* name of its store, or a list of names.
Scopes(req) == IF Len(req.store_names) = 1 THEN "string" ELSE "array"

\* The requests from the i-th on are submitted one after the other, none
\* waiting for the one before: each is a transaction() call with a
\* completion handler.
RECURSIVE submit(_, _, _)
submit(c, requests, i) ==
  IF i > Len(requests) THEN c
  ELSE submit(started(c, transaction(c.s, i, Scopes(requests[i]),
                                     requests[i].mode, TRUE, FALSE),
                      requests),
              requests, i + 1)

\* The requests of the tests, on the store st and the key k.
Put(k) == Request("put", <<"st">>, k, [id |-> k, value |-> "1"], READ_WRITE)

Add(k) == Request("add", <<"st">>, k, [id |-> k, value |-> "2"], READ_WRITE)

Get(k) == Request("get", <<"st">>, k, NoRecord, UNDEFINED)

ClearStores(store_names) ==
  Request("clear", store_names, 0, NoRecord, READ_WRITE)

\* What a client does in one turn, as the tests do: a put and an add of the
\* same key (testAddFail), and a clear of one store, of two, and of all
\* (testClearStore).
Turns ==
  { <<Put(1), Add(1)>>,
    <<ClearStores(<<"st">>)>>,
    <<ClearStores(<<"st2", "st3">>)>>,
    <<ClearStores(<<>>)>> }

\* The turns of testClearStore whose order matters: a put, and a get, a
\* clear and a get of the key, which is missing when nothing was put.
OrderedTurns ==
  { <<Put(1)>>,
    <<Get(1), ClearStores(<<"st">>), Get(1)>> }

\* The storage of CrudJstest after its constructor: the schema of the
\* three stores, not editable, and no record.
InitCrud ==
  /\ mechanisms = PREFERENCE
  /\ supported = {IndexedDbTYPE, WebSqlTYPE}
  /\ auto_schema = FALSE
  /\ schema = CrudSchema
  /\ NoCursor
  /\ Constructed
  /\ NoQuery
  /\ crudStores = [n \in Elements(CrudStoreNames) |-> {}]
  /\ crudRequests = <<>>
  /\ crudResults = <<>>

\* A client submits the requests of one turn. The turn a request belongs
\* to is kept with it.
Submit(turn, max) ==
  /\ nsubmit + Len(turn) <= max
  /\ LET requests ==
           crudRequests \o [i \in 1..Len(turn) |->
                              turn[i] @@ [first |-> nsubmit + 1]]
         c == submit(Crud, requests, nsubmit + 1)
     IN /\ Store(c.s)
        /\ lastError' = c.s.exc
        /\ crudStores' = c.stores
        /\ crudResults' = c.results
        /\ crudRequests' = requests
  /\ nsubmit' = nsubmit + Len(turn)
  /\ UNCHANGED <<sqlVars, cursorVars, schemaVars, mechanisms, supported,
                 connecting, nconnect, failEvents, openFailed>>

\* db.connect() succeeds: the callback sets db_ and pops the queue.
Connected(db) ==
  /\ db \in connecting
  /\ connecting' = connecting \ {db}
  /\ LET c == started(Crud,
                      popTxQueue_([Fields EXCEPT !.db_ = db,
                                                 !.dbReady = TRUE], FALSE),
                      crudRequests)
     IN /\ Store(c.s)
        /\ lastError' = c.s.exc
        /\ crudStores' = c.stores
        /\ crudResults' = c.results
  /\ UNCHANGED <<sqlVars, cursorVars, schemaVars, mechanisms, supported,
                 nconnect, nsubmit, failEvents, openFailed, crudRequests>>

\* The backend ends the running transaction r with COMPLETE and calls its
\* on_complete, which pops the queue.
Completed(r) ==
  /\ r \in running
  /\ LET c == started(Crud,
                      on_complete([Fields EXCEPT !.running = @ \ {r}], r,
                                  COMPLETE, FALSE),
                      crudRequests)
     IN /\ Store(c.s)
        /\ lastError' = c.s.exc
        /\ crudStores' = c.stores
        /\ crudResults' = c.results
  /\ UNCHANGED <<sqlVars, cursorVars, schemaVars, mechanisms, supported,
                 connecting, nconnect, nsubmit, failEvents, openFailed,
                 crudRequests>>

NextCrud ==
  \/ SetName
  \/ \E db \in connecting : Connected(db)
  \/ \E turn \in Turns : Submit(turn, MaxCrud)
  \/ \E r \in running : Completed(r)

SpecCrud == InitCrud /\ [][NextCrud]_vars

NextCrudOrder ==
  \/ SetName
  \/ \E db \in connecting : Connected(db)
  \/ \E turn \in OrderedTurns : Submit(turn, MaxOrdered)
  \/ \E r \in running : Completed(r)

SpecCrudOrder == InitCrud /\ [][NextCrudOrder]_vars

\* ------------------------------------------------------------------ claims

\* Ids of the requests whose onComplete has fired, in firing order.
CompletedIds == {completions[i].fnc : i \in 1..Len(completions)}

\* C1. Queue FIFO: of two requests submitted through transaction(), the one
\* submitted later never has its onComplete fired before the one submitted
\* earlier: the completions are in submission order.
C1_QueueFIFO ==
  \A i, j \in 1..Len(completions) :
    i < j => completions[i].fnc < completions[j].fnc

\* C2. One at a time: at most one transaction has been handed to the
\* backend's doTransaction and has not yet had its onComplete fired.
C2_OneAtATime == Cardinality(running) <= 1

\* The connection is ready: isReady() of the storage object.
Ready == db_ # NULL /\ dbReady

Last(q) == q[Len(q)]

\* A step in which a handler pops the queue: the on_complete of a running
\* transaction, or the success callback of db.connect.
PopStep ==
  \/ running' # running /\ nsubmit' = nsubmit
  \/ connecting' # connecting /\ nconnect' = nconnect /\ openFailed' = openFailed

\* A step in which transaction() is called by the client and accepts its
\* arguments.
SubmitStep == nsubmit' = nsubmit + 1 /\ lastError' # "ArgumentException"

\* C3. While the connection is not ready (no backend handle, or the backend
\* reports not ready) no request is handed to doTransaction, and every
\* transaction() call appends its request record to the queue.
C3_NotReadyQueues ==
  [][ (~Ready /\ ~Ready') =>
        /\ handed' = handed
        /\ running' \subseteq running
        /\ SubmitStep =>
             /\ txQueue_' # <<>>
             /\ Last(txQueue_').fnc = nsubmit'
             /\ \/ txQueue_' = Append(txQueue_, Last(txQueue_'))
                \/ txQueue_' = Tail(Append(txQueue_, Last(txQueue_')))
    ]_vars

\* C3 witness: the backend handle is set but reports not ready, a request
\* has been queued and none has been handed to the backend.
C3_Witness ==
  /\ db_ # NULL
  /\ ~dbReady
  /\ txQueue_ # <<>>
  /\ handed = {}

\* C4. A versionchange transaction is totally ordered against the others:
\* while it has been handed to the backend and has not completed, every
\* other request handed so far was submitted before it and has completed.
C4_VersionChangeOrdered ==
  \A v \in running :
    v.mode = VERSION_CHANGE =>
      \A id \in handed \ {v.fnc} : id < v.fnc /\ id \in CompletedIds

\* C5. While a versionchange transaction is running no other request is
\* handed to the backend, a request submitted or popped in that window is
\* put at the back of the queue, and when the versionchange transaction
\* completes (with any kind) the flag is cleared: it is set after the step
\* only if the request popped next is itself a versionchange transaction
\* that was handed to the backend.
C5_VersionChangeBlocks ==
  [][ \A v \in running :
        v.mode = VERSION_CHANGE =>
          IF v \in running'
            THEN /\ handed' = handed
                 /\ in_version_change_tx_'
                 /\ SubmitStep =>
                      txQueue_' # <<>> /\ Last(txQueue_').fnc = nsubmit'
                 /\ (PopStep /\ txQueue_ # <<>>) =>
                      txQueue_' = Append(Tail(txQueue_), Head(txQueue_))
            ELSE in_version_change_tx_' =
                   (/\ txQueue_ # <<>>
                    /\ Head(txQueue_).mode = VERSION_CHANGE
                    /\ handed' # handed)
    ]_vars

\* C5 witness: a versionchange transaction is running and a request
\* submitted after it waits in the queue.
C5_Witness ==
  \E v \in running :
    /\ v.mode = VERSION_CHANGE
    /\ \E i \in 1..Len(txQueue_) : txQueue_[i].fnc > v.fnc

RECURSIVE PurgeCalls(_)
PurgeCalls(q) ==
  IF q = <<>> THEN <<>>
  ELSE (IF Head(q).oncompleted
          THEN <<[fnc |-> Head(q).fnc, type |-> ERROR, by |-> "purge"]>>
          ELSE <<>>)
         \o PurgeCalls(Tail(q))

\* C7. When opening the database fails, every pending request (with or
\* without a completion handler) has its onComplete invoked with kind error,
\* in queue order, and the queue is empty afterwards.
C7_PurgeOnOpenFailure ==
  [][ openFailed' # openFailed =>
        /\ txQueue_' = <<>>
        /\ completions' = completions \o PurgeCalls(txQueue_)
    ]_vars

\* The request id is in the pending queue.
InQueue(id) == \E i \in 1..Len(txQueue_) : txQueue_[i].fnc = id

\* C8 as stated. When the connection becomes ready and every started
\* transaction ends, every queued request is eventually handed to the
\* backend.
C8_QueuedEventuallyHanded ==
  \A id \in 1..MaxReq : InQueue(id) ~> (id \in handed)

\* C8 as amended. Under the same assumptions every queued request is
\* eventually handed to the backend or removed by a queue overflow, whatever
\* the kinds (complete, error, abort) the transactions before it end with:
\* a request leaves the queue only by being handed to the backend or by an
\* overflow, and the queue is empty again and again, so that every request
\* in it does leave it.
C8_QueuedHandedOrDropped ==
  /\ [][ \A id \in 1..MaxReq :
           (InQueue(id) /\ ~InQueue(id)') => id \in handed' \cup dropped'
       ]_vars
  /\ []<>(txQueue_ = <<>>)

\* C8 witness: the first transaction ended with kind error and another
\* request was handed to the backend after it, with the queue drained and
\* one request lost to an overflow.
C8_Witness ==
  /\ Len(completions) >= 1
  /\ completions[1].type = ERROR
  /\ handed \ CompletedIds # {}
  /\ dropped # {}
  /\ txQueue_ = <<>>

\* The mechanism name can be selected: it names a backend, and the backend
\* is supported here (the in-memory store is supported everywhere).
Selectable(name) ==
  LET t == ToLowerCase(name) IN
  \/ t = SimpleStorageTYPE
  \/ /\ t \in {IndexedDbTYPE, WebSqlTYPE, LocalStorageTYPE,
               SessionStorageTYPE}
     /\ t \in supported

NoMechanism == "ConstrainError: No storage mechanism found."

\* C9. connectDatabase connects to the first backend of the mechanisms list
\* that is supported; when the list holds none it fails with
\* ConstraintError 'No storage mechanism found' and starts no connect.
C9_BackendSelection ==
  [][ (nconnect' # nconnect \/ lastError' = NoMechanism) =>
        IF \E i \in 1..Len(mechanisms) : Selectable(mechanisms[i])
          THEN \E i \in 1..Len(mechanisms) :
                 /\ Selectable(mechanisms[i])
                 /\ \A j \in 1..(i - 1) : ~Selectable(mechanisms[j])
                 /\ connecting' # connecting
                 /\ connecting' =
                      connecting \cup
                        {[id |-> nconnect', type |-> ToLowerCase(mechanisms[i])]}
                 /\ lastError' = ""
          ELSE /\ connecting' = connecting
               /\ nconnect' = nconnect
               /\ lastError' = NoMechanism
    ]_vars

\* C9 witness: the backend being connected is not the first of the list,
\* whose backend is not supported here.
C9_Witness ==
  \E d \in connecting :
    /\ mechanisms # <<>>
    /\ ~Selectable(mechanisms[1])
    /\ d.type # ToLowerCase(mechanisms[1])

\* C10. The FAIL event is dispatched, and the queue purged, only when
\* opening the database fails.
C10_FailOnlyOnOpenFailure ==
  /\ failEvents <= openFailed
  /\ (\E i \in 1..Len(completions) : completions[i].by = "purge")
       => openFailed > 0

\* ---------------------------------------------------------- addStoreSchema

\* The addStoreSchema() calls whose returned handle has resolved: nothing in
\* the code fires the deferred of connectDatabase(), so these are the
\* handles made by goog.async.Deferred.succeed.
Resolved(i) ==
  i <= Len(schemaCalls) /\ schemaCalls[i].returned = "succeed(false)"

\* The i-th addStoreSchema() call returned a handle (it did not throw).
Returned(i) ==
  i <= Len(schemaCalls) /\ schemaCalls[i].returned # "ConstrainError"

\* C11: the result handle addStoreSchema returns always resolves: at once
\* when no change is needed or no backend is connected, and in the end,
\* once the reconnect has succeeded or failed, when it closes and reconnects
\* the backend.
C11_HandleResolves ==
  \A i \in 1..MaxSchemaCalls : Returned(i) ~> Resolved(i)

\* The step of an addStoreSchema() call, and its argument.
AddStoreStep == Len(schemaCalls') = Len(schemaCalls) + 1

NewStore == Last(schemaCalls').store_schema

\* C12: addStoreSchema with a store not similar to the store of its name
\* fails with ConstrainError on a schema that is not editable, leaving the
\* schema, the backend handle and the queue as they were; on an editable
\* schema the store is added to the schema.
C12_NotSimilarStore ==
  [][ (AddStoreStep /\ ~similar(NewStore, getStore(schema, NewStore.name)))
        => IF auto_schema
             THEN /\ NewStore \in schema'
                  /\ getStore(schema', NewStore.name) = NewStore
             ELSE /\ Last(schemaCalls').returned = "ConstrainError"
                  /\ lastError' =
                       "ConstrainError: Not auto schema generation mode."
                  /\ UNCHANGED <<schema, db_, dbReady, connecting, txQueue_>>
    ]_vars

\* C12 witness: an edit refused while a backend is connected.
C12_Witness ==
  /\ schemaCalls # <<>>
  /\ Last(schemaCalls).returned = "ConstrainError"
  /\ ~auto_schema
  /\ db_ # NULL
  /\ \E i \in 1..Len(schemaCalls) :
       schemaCalls[i].store_schema \notin schema

\* ------------------------------------------------------------------ cursor

\* The cursor is at an active position.
Active == hasCursor(cursor_, current_cursor_index_)

\* The keys at position j of the result set, as the getters give them.
PrimaryKeyAt(j) == getPrimaryKey(cursor_, j)

IndexKeyAt(j) == getIndexKey(cursor_, j)

EffectiveKeyAt(j) == getEffectiveKey(cursor_, j)

\* C13: in every state reached by open, advance(n) with n >= 1, the two
\* continue operations, update, clear and restart, the position of a cursor
\* that has a result set is between 0 and the length of the result set.
C13_PositionInRange ==
  ~cursor_.null =>
    /\ 0 <= current_cursor_index_
    /\ current_cursor_index_ <= Length(cursor_)

\* The key k is ahead of, behind, or reached or passed by the key at a
\* position, in the direction of the cursor.
Ahead(k, at) == IF reverse THEN cmp(k, at) = -1 ELSE cmp(k, at) = 1

Behind(k, at) == IF reverse THEN cmp(k, at) = 1 ELSE cmp(k, at) = -1

Reached(k, at) == IF reverse THEN cmp(k, at) >= 0 ELSE cmp(k, at) <= 0

\* C14: continueEffectiveKey(k) on an active cursor with k ahead of the
\* current effective key lands at a position q where the effective key has
\* reached or passed k, every position skipped having a key before k, and
\* emits the triple of q; or q is the length of the result set and the
\* undefined triple is emitted.
C14_ContinueEffectiveKeyLands ==
  [][ \A k \in EffectiveKeyInputs :
        ( /\ Active
          /\ Ahead(k, EffectiveKeyAt(current_cursor_index_))
          /\ ContinueEffectiveKey(k) )
        => LET q == current_cursor_index_' IN
           /\ q > current_cursor_index_
           /\ \A j \in current_cursor_index_..(q - 1) :
                j < Length(cursor_) => Ahead(k, EffectiveKeyAt(j))
           /\ \/ /\ q < Length(cursor_)
                 /\ Reached(k, EffectiveKeyAt(q))
                 /\ emitted' = <<Triple(cursor_, q)>>
              \/ /\ q = Length(cursor_)
                 /\ emitted' = <<UndefinedTriple>>
    ]_vars

\* C15: advance(n), n >= 1, from the active position p leaves the cursor at
\* p + n, getPrimaryKey() being the key of row p + n of the result set, or
\* undefined when p + n is at or over the length, and emits one success
\* event, with that primary key, its index key and its value.
C15_AdvanceMoves ==
  [][ \A n \in StepInputs \ {0} :
        (Active /\ Advance(n))
        => LET p == current_cursor_index_
               inside == p + n < Length(cursor_)
               row == cursor_.rows[p + n + 1]
           IN
           /\ current_cursor_index_' = p + n
           /\ cursorError' = ""
           /\ getPrimaryKey(cursor_', current_cursor_index_') =
                IF inside THEN sql2js(row.id, PrimaryType) ELSE UndefinedKey
           /\ emitted' =
                << IF inside
                     THEN [primary_key |-> sql2js(row.id, PrimaryType),
                           index_key |-> IF index_name # ""
                                           THEN sql2js(row.k, index_type)
                                           ELSE UndefinedKey,
                           value |-> row]
                     ELSE UndefinedTriple >>
    ]_vars

\* C15 witness: a reverse cursor one past the length of its result set with
\* the undefined triple emitted; advance(2) from the last row leads there.
C15_Witness ==
  /\ ~cursor_.null
  /\ reverse
  /\ Length(cursor_) > 0
  /\ current_cursor_index_ = Length(cursor_) + 1
  /\ emitted = <<UndefinedTriple>>
  /\ cursorError = ""

\* C16: advance(0) is rejected: it ends with an error, leaves the position
\* unchanged and emits no success event.
C16_AdvanceZeroRejected ==
  [][ Advance(0)
        => /\ cursorError' # ""
           /\ current_cursor_index_' = current_cursor_index_
           /\ emitted' = <<>>
    ]_vars

\* The call was refused for its direction: nothing moved, nothing emitted.
RefusedWrongDirection ==
  /\ cursorError' = WrongDirection
  /\ current_cursor_index_' = current_cursor_index_
  /\ emitted' = <<>>

\* C17: continueEffectiveKey(k) and continuePrimaryKey(k) with k behind the
\* current key in the direction of the cursor fail with
\* InvalidOperationError, leave the position unchanged and emit no event.
C17_WrongDirectionRefused ==
  [][ /\ \A k \in EffectiveKeyInputs :
           ( /\ Active
             /\ Behind(k, EffectiveKeyAt(current_cursor_index_))
             /\ ContinueEffectiveKey(k) )
           => RefusedWrongDirection
      /\ \A k \in PrimaryKeyInputs :
           ( /\ Active
             /\ Behind(k, PrimaryKeyAt(current_cursor_index_))
             /\ ContinuePrimaryKey(k) )
           => RefusedWrongDirection
    ]_vars

\* C17 witness: a call refused past the first row of a reverse cursor.
C17_Witness ==
  /\ cursorError = WrongDirection
  /\ reverse
  /\ Active
  /\ current_cursor_index_ > 0
  /\ emitted = <<>>

\* continuePrimaryKey(k) from the position p has to stop at the row q: the
\* primary key of q has reached or passed k, or its index key is no more
\* the one of p.
StopsAt(p, k, q) ==
  \/ Reached(k, PrimaryKeyAt(q))
  \/ IndexKeyAt(q) # IndexKeyAt(p)

\* C18: continuePrimaryKey(k) on a cursor on an index stops at the first
\* row whose primary key has reached or passed k or whose index key differs
\* from the one it started at, whichever comes first, whatever the index
\* key is (0, the empty string and tuples included), and leaves the rows
\* when there is no such row.
C18_ContinuePrimaryKeyStops ==
  [][ \A k \in PrimaryKeyInputs :
        ( /\ index_name # ""
          /\ Active
          /\ Ahead(k, PrimaryKeyAt(current_cursor_index_))
          /\ ContinuePrimaryKey(k) )
        => LET p == current_cursor_index_
               stops == { q \in (p + 1)..(Length(cursor_) - 1) :
                            StopsAt(p, k, q) }
           IN IF stops = {}
                THEN current_cursor_index_' >= Length(cursor_)
                ELSE /\ current_cursor_index_' \in stops
                     /\ \A q \in stops : current_cursor_index_' <= q
    ]_vars

\* The rows a cursor resumed from (effective_key, primary_key) has still to
\* visit: the rows of its range strictly after that pair in its direction.
AfterResume(effective_key, primary_key) ==
  { r \in table :
      /\ InRange(sql2js(KeyColumn(r), KeyColumnType), key_range)
      /\ LET c1 == cmp(sql2js(KeyColumn(r), KeyColumnType), effective_key)
             c2 == cmp(sql2js(r.id, PrimaryType), primary_key)
         IN IF reverse THEN c1 = -1 \/ (c1 = 0 /\ c2 = -1)
                       ELSE c1 = 1 \/ (c1 = 0 /\ c2 = 1) }

\* The triple of a row of the store.
RowTriple(r) ==
  [primary_key |-> sql2js(r.id, PrimaryType),
   index_key |-> IF index_name # "" THEN sql2js(r.k, index_type)
                                    ELSE UndefinedKey,
   value |-> IF key_only THEN UndefinedValue ELSE r]

\* C19: restart(effectiveKey, primaryKey) on a cursor on an index resumes
\* right after the resume point: when the statement has materialized, the
\* cursor emits the first row, in its direction, whose (effective key,
\* primary key) pair is strictly after the resume point, no row after it
\* being skipped, and the skip loop ends, with the undefined triple, when
\* there is no such row.
C19_RestartResumes ==
  [][ \A cmp_undefined \in {-1, 0, 1}, thr \in BOOLEAN :
        ( /\ request.sql = "SELECT"
          /\ index_name # ""
          /\ isDefAndNotNull(request.ini_key)
          /\ SqlSuccess(cmp_undefined, thr) )
        => LET rest == AfterResume(request.range.lower, request.ini_key) IN
           /\ cursorError' = ""
           /\ emitted' = << IF rest = {} THEN UndefinedTriple
                            ELSE RowTriple(Head(OrderBy(rest))) >>
    ]_vars

\* The effective keys of the result set, in its order.
ResultKeys(c) == [i \in 1..Length(c) |-> KeyColumn(c.rows[i])]

\* C20: whatever the key range and the direction, the result set a cursor
\* iterates from its opening to its end (advance(1) emitting its rows one
\* after the other) has the effective keys of the rows in the range and no
\* other, ascending for next and nextUnique and descending for prev and
\* prevUnique, an effective key coming twice if and only if the direction
\* is neither nextUnique nor prevUnique and two rows have it.
C20_IterationOrder ==
  [][ \A cmp_undefined \in {-1, 0, 1}, thr \in BOOLEAN :
        ( /\ request.sql = "SELECT"
          /\ ~isDefAndNotNull(request.ini_key)
          /\ SqlSuccess(cmp_undefined, thr) )
        => LET ks == ResultKeys(cursor_')
               inRange == { r \in table :
                   InRange(sql2js(KeyColumn(r), KeyColumnType), key_range) }
           IN
           /\ current_cursor_index_' = 0
           /\ {ks[i] : i \in 1..Len(ks)} = {KeyColumn(r) : r \in inRange}
           /\ \A i, j \in 1..Len(ks) :
                i < j => IF reverse THEN ks[i] >= ks[j] ELSE ks[i] <= ks[j]
           /\ IF unique
                THEN \A i, j \in 1..Len(ks) : i < j => ks[i] # ks[j]
                ELSE Len(ks) = Cardinality(inRange)
    ]_vars

\* C21: hasCursor() is true exactly when the position is active, that is
\* when a result set has been materialized and the position is below its
\* length; so it is before the first result set (false) and while the
\* statement of a restart is pending, when the result set of the statement
\* before is still the one the cursor holds.
PositionActive ==
  /\ cursor_ # NullCursor
  /\ current_cursor_index_ < Len(cursor_.rows)

C22_GettersUndefined ==
  ~PositionActive =>
    /\ getPrimaryKey(cursor_, current_cursor_index_) = UndefinedKey
    /\ getIndexKey(cursor_, current_cursor_index_) = UndefinedKey
    /\ getValue(cursor_, current_cursor_index_) = UndefinedValue

\* C23: update(obj) on an active cursor leaves the position where it is and
\* active, when it is called and when its statement succeeds; the deferred
\* is then fired with the primary key of the position, and get() of that
\* key in the store gives the record of the update.
CurrentPrimaryKey == getPrimaryKey(cursor_, current_cursor_index_)

Rejected ==
  /\ cursorError' \in {"InvalidAccessError", "NotImplementedException"}
  /\ request' = NoRequest
  /\ ~has_pending_request'
  /\ UNCHANGED <<cursor_, current_cursor_index_, table, df>>

C24_WriteRejected ==
  [][\A idx \in BOOLEAN :
       (/\ ~PositionActive \/ idx
        /\ (\E obj \in UpdateInputs : Update(obj, idx)) \/ Clear(idx))
       => Rejected]_vars

\* A write with a secondary-index selector was refused on an active cursor.
C24_Witness ==
  /\ PositionActive
  /\ cursorError = "NotImplementedException"
  /\ ~has_pending_request

\* C25: when a statement of the cursor fails, its error callback asks for
\* the roll back, ends the pending state and emits no success event; the
\* error goes to the error event of the cursor for the SELECT statement of
\* open and restart, and rejects the deferred of update and clear.
C25_SqlErrorRollsBack ==
  [][(has_pending_request /\ SqlError) =>
       /\ rollback'
       /\ ~has_pending_request'
       /\ emitted' = <<>>
       /\ IF request.sql = "SELECT"
            THEN cursorError' = "SQLError" /\ df' = df
            ELSE df' = errback]_vars

\* The statement of an update or of a clear has failed.
C25_Witness ==
  /\ rollback
  /\ df = errback
  /\ ~has_pending_request

\* The number of positions of the sequence s that hold x.
Times(s, x) == Cardinality({k \in 1..Len(s) : s[k] = x})

\* The wheres of the query whose field is an index of its store, and the
\* others, each in declaration order.
OnIndex(q) ==
  SelectSeq(q.wheres_, LAMBDA w : w.field \in QueryStore.indexes)

NotOnIndex(q) ==
  SelectSeq(q.wheres_, LAMBDA w : w.field \notin QueryStore.indexes)

\* C27. Native index selection: a toIdbQuery call that returns a descriptor
\* uses the index named in the query if there is one, with no key range;
\* otherwise the first where, in declaration order, on an index of the
\* store is index and key range of the descriptor; and every other where of
\* the query is a filter of the descriptor exactly once, none being lost or
\* attached twice.
C27_NativeIndexSelection ==
  [][
    (ToIdbQuery /\ query'.kind = "idb") =>
      LET taken == IF ir.index = UNDEFINED /\ OnIndex(ir) # <<>>
                     THEN <<OnIndex(ir)[1]>> ELSE <<>>
      IN /\ ir.index # UNDEFINED =>
              query'.index = ir.index /\ query'.key_range = NoKeyRange
         /\ taken # <<>> =>
              /\ query'.index = taken[1].field
              /\ query'.key_range = taken[1]
         /\ (ir.index = UNDEFINED /\ taken = <<>>) =>
              query'.index = UNDEFINED /\ query'.key_range = NoKeyRange
         /\ Len(query'.filters) + Len(taken) = Len(ir.wheres_)
         /\ \A k \in 1..Len(ir.wheres_) :
              Times(query'.filters, ir.wheres_[k])
                + Times(taken, ir.wheres_[k]) = 1
  ]_vars

\* C27 witness: a descriptor whose key range is the where on b although
\* the query had a where on the index a as well, declared after it and now
\* a filter next to the where on v.
C27_Witness ==
  /\ query.kind = "idb"
  /\ query.index = "b"
  /\ query.key_range.field = "b"
  /\ Len(query.filters) = 2
  /\ query.filters[1].field = "a"

\* C28. At most one where per field: no two wheres of the query are on the
\* same field, and a where() call naming a field that has a where ends
\* with an exception and leaves the list of wheres as it was.
C28_OneWherePerField ==
  /\ [](\A i, j \in 1..Len(ir.wheres_) :
          ir.wheres_[i].field = ir.wheres_[j].field => i = j)
  /\ [][
       \A w \in WhereInputs :
         ((\E k \in 1..Len(ir.wheres_) : ir.wheres_[k].field = w[1])
            /\ WhereClause(w[1], w[2], w[3], w[4], w[5])) =>
           (sqlError' # "" /\ query' = Nothing /\ ir'.wheres_ = ir.wheres_)
     ]_vars

\* C28 witness: a where() call on the field a was refused by a query that
\* has wheres on a, b and v.
C28_Witness ==
  /\ sqlError = ArgumentException("a")
  /\ Len(ir.wheres_) = 3

\* C29. At most one map and one reduce: a project() call on a query that
\* has a map, and an aggregate() call on a query that has a reduce, end
\* with an exception and leave the map and the reduce as they were.
C29_OneMapOneReduce ==
  [][
    /\ \A e \in ProjectInputs :
         (ir.map_ # NullMap /\ Project(e)) =>
           (sqlError' # "" /\ query' = Nothing /\ ir' = ir)
    /\ \A a \in AggregateInputs :
         (ir.reduce_ # NullReduce /\ Aggregate(a[1], a[2])) =>
           (sqlError' # "" /\ query' = Nothing /\ ir' = ir)
  ]_vars

\* A second aggregate() call was refused.
TooManyReduce == sqlError = ArgumentException("too many reduce.")

\* C29 witness: a second aggregate() call was refused by a query that has
\* a map and a reduce.
C29_Witness ==
  /\ TooManyReduce
  /\ ir.map_ # NullMap
  /\ ir.reduce_.type = SUM

\* The predicates of a statement, in its order.
Predicates(sql) == SelectSeq(sql, LAMBDA t : t.field # "")

\* The text between the predicates of a WHERE clause.
Joints(sql) ==
  SelectSeq(sql, LAMBDA t : t.s = "WHERE " \/ t.s = " AND ")

\* The parameters of the wheres of a sequence, in its order.
RECURSIVE ParamsOf(_)
ParamsOf(wheres) ==
  IF wheres = <<>> THEN <<>>
  ELSE toWhereClause(wheres[1]).params \o ParamsOf(Tail(wheres))

\* C30. SQL compilation partitions the wheres: the statement a toSqlQuery
\* call returns has one predicate for each where on an index of the store,
\* in where order, after WHERE and joined by AND, with their parameters in
\* where order; the wheres that are on no index are the filters of the
\* descriptor and have no predicate in the statement.
C30_SqlPartitionsWheres ==
  [][
    (ToSqlQuery /\ query'.kind = "sql") =>
      /\ Len(Predicates(query'.sql)) = Len(OnIndex(ir))
      /\ \A k \in 1..Len(OnIndex(ir)) :
           Predicates(query'.sql)[k] = toWhereClause(OnIndex(ir)[k]).sql
      /\ Len(Joints(query'.sql)) = Len(OnIndex(ir))
      /\ \A k \in 1..Len(Joints(query'.sql)) :
           Joints(query'.sql)[k].s = (IF k = 1 THEN "WHERE " ELSE " AND ")
      /\ query'.params = ParamsOf(OnIndex(ir))
      /\ query'.filters = NotOnIndex(ir)
      /\ \A k \in 1..Len(query'.sql) :
           query'.sql[k].field \in QueryStore.indexes \cup {""}
  ]_vars

\* C30 witness: a statement with the predicates of the wheres on b and on
\* a, three parameters, and the where on v as its filter.
C30_Witness ==
  /\ query.kind = "sql"
  /\ Len(Predicates(query.sql)) = 2
  /\ Predicates(query.sql)[1].field = "b"
  /\ Len(query.params) = 3
  /\ Len(query.filters) = 1
  /\ query.filters[1].field = "v"

\* C26. Equivalence of the two compilation targets: when a query that
\* compiles for both backends is run by both on the same records, the SQL
\* backend returns rows, the same records as the native backend and each
\* as often, and in the same order when the query names an index.
C26_BackendsAgree ==
  found.run =>
    /\ found.sql.exc = ""
    /\ Len(found.sql.rows) = Len(found.idb)
    /\ \A o \in QueryObjects :
         Times(found.sql.rows, o) = Times(found.idb, o)
    /\ ir.index # UNDEFINED => found.sql.rows = found.idb

\* The two backends agree on the queries without limit and offset.
BackendsAgreeUnbounded ==
  (found.run /\ ir.limit_ = NaN /\ ir.offset_ = NaN) =>
    /\ found.sql.exc = ""
    /\ Len(found.sql.rows) = Len(found.idb)
    /\ \A o \in QueryObjects :
         Times(found.sql.rows, o) = Times(found.idb, o)
    /\ ir.index # UNDEFINED => found.sql.rows = found.idb

\* The query has all that a statement needs but for its reduce: a store of
\* the schema, no statement to parse, and no map or a map of fields.
Compilable(q) ==
  /\ q.sql_ = ""
  /\ getQueryStore(QuerySchema, q.store_name) # NoQueryStore
  /\ q.map_.type \in {"null", SELECT, SELECT_MANY}

\* The statement has the piece of text.
HasText(sql, text) == \E k \in 1..Len(sql) : sql[k] = Tok(text)

\* C31. A query whose reduce is MIN or MAX compiles to SQL: toSqlQuery
\* returns a statement that calls the SQL aggregate of the same name, and
\* does not fail.
C31_MinMaxLowered ==
  [][
    (ir.reduce_.type \in {MIN, MAX} /\ Compilable(ir) /\ ToSqlQuery) =>
      /\ sqlError' = ""
      /\ query'.kind = "sql"
      /\ HasText(query'.sql,
                 IF ir.reduce_.type = MIN THEN "SELECT MIN ("
                                         ELSE "SELECT MAX (")
  ]_vars

\* The direction of the query is one of the two unique ones.
IsUnique(q) == q.direction \in {NEXT_UNIQUE, PREV_UNIQUE}

\* The direction of the query is descending; a direction that is not set
\* is ascending.
IsDescending(q) == q.direction \in {PREV, PREV_UNIQUE}

\* C32. DISTINCT follows the direction: the statement toSqlQuery returns
\* contains DISTINCT when the direction of the query is nextUnique or
\* prevUnique, whatever its map and its reduce, and does not contain it for
\* any other direction.
C32_DistinctIffUnique ==
  [][
    (ToSqlQuery /\ query'.kind = "sql") =>
      (IsUnique(ir) <=>
         (HasText(query'.sql, " DISTINCT") \/ HasText(query'.sql, "DISTINCT ")))
  ]_vars

\* C39. Compiling does not change the query: a toIdbQuery or toSqlQuery
\* call leaves the wheres, the index, the direction, the map and the reduce
\* of the query as they were, so that a second compilation sees the query
\* the first one saw.
C39_CompilingLeavesQuery ==
  [][
    (ToIdbQuery \/ ToSqlQuery) =>
      /\ ir'.wheres_ = ir.wheres_
      /\ ir'.index = ir.index
      /\ ir'.direction = ir.direction
      /\ ir'.map_ = ir.map_
      /\ ir'.reduce_ = ir.reduce_
  ]_vars

\* C40. The direction builders are independent: unique(v) makes the
\* direction unique or not as v says and leaves it ascending or descending
\* as it was, reverse(v) makes it descending or not as v says and leaves it
\* unique or not as it was, a direction that is not set being ascending and
\* not unique.
C40_DirectionBuildersIndependent ==
  [][
    \A value \in BOOLEAN :
      /\ Unique(value) =>
           (IsUnique(ir') = value /\ IsDescending(ir') = IsDescending(ir))
      /\ Reverse(value) =>
           (IsDescending(ir') = value /\ IsUnique(ir') = IsUnique(ir))
  ]_vars

\* The values of the field a of the first n records of a sequence.
RECURSIVE SumOf(_, _)
SumOf(seq, n) == IF n = 0 THEN 0 ELSE SumOf(seq, n - 1) + seq[n].a

Least(seq, n) ==
  CHOOSE x \in {seq[k].a : k \in 1..n} : \A k \in 1..n : x <= seq[k].a

Greatest(seq, n) ==
  CHOOSE x \in {seq[k].a : k \in 1..n} : \A k \in 1..n : x >= seq[k].a

\* C33. Native aggregates: after the reduce of the descriptor has been
\* folded over the first i records, from the initial value of the
\* descriptor, its value is the number of these records for COUNT, the sum
\* of their field for SUM, and the least and the greatest value of their
\* field for MIN and MAX; before the first record it is 0 for COUNT and
\* SUM and undefined for MIN and MAX.
C33_NativeAggregates ==
  (query.kind = "idb" /\ query.reduce.fn \in Folded) =>
    LET i == IF found.run THEN found.i ELSE 0
        value == IF found.run THEN found.prev ELSE query.initial
    IN /\ query.reduce.fn = "reduceCount" => value = Num(i)
       /\ query.reduce.fn = "reduceSum" => value = Num(SumOf(objects, i))
       /\ query.reduce.fn = "reduceMin" =>
            value = (IF i = 0 THEN Undefined ELSE Num(Least(objects, i)))
       /\ query.reduce.fn = "reduceMax" =>
            value = (IF i = 0 THEN Undefined ELSE Num(Greatest(objects, i)))

\* C33 witness: SUM folded over the records with the prices 1, 2, 3, 4 is
\* 10.
C33_Witness ==
  /\ query.kind = "idb"
  /\ query.reduce.fn = "reduceSum"
  /\ Len(objects) = 4
  /\ \A k \in 1..4 : objects[k].a = k
  /\ found.run
  /\ found.i = 4
  /\ found.prev = Num(10)

\* The requests of a queue, by the number of their transaction() call.
QueueIds(q) == {q[k].fnc : k \in 1..Len(q)}

\* The requests whose onComplete has been invoked with error.
EndedWithError(calls) ==
  {calls[k].fnc : k \in {j \in 1..Len(calls) : calls[j].type = ERROR}}

\* C37. No request leaves the pending queue silently: a request that is in
\* the queue before a step and not after it has been handed to the
\* backend's doTransaction in that step or has had its onComplete invoked
\* with error.
C37_NoSilentRemoval ==
  [][
    \A id \in QueueIds(txQueue_) \ QueueIds(txQueue_') :
      \/ id \in handed'
      \/ id \in EndedWithError(completions')
  ]_vars

\* C38. The completion of a request is invoked at most once: no request has
\* two entries among the onComplete invocations, whether it was started at
\* once, queued and popped, queued again, or purged.
C38_CompletedAtMostOnce ==
  \A i, j \in 1..Len(completions) :
    completions[i].fnc = completions[j].fnc => i = j

\* C38 witness: a request that was queued has been started from the queue
\* and completed by the backend, and another one has been ended by a purge.
C38_Witness ==
  /\ \E k \in 1..Len(completions) : completions[k].by = "purge"
  /\ \E k \in 1..Len(completions) :
       completions[k].by = "tx" /\ completions[k].type = COMPLETE

\* The stores after the closures of the first n requests that ran, in the
\* order they ran, from the empty stores.
RECURSIVE Replay(_)
Replay(n) ==
  IF n = 0 THEN [name \in Elements(CrudStoreNames) |-> {}]
  ELSE execute(Replay(n - 1), crudRequests[crudResults[n].fnc]).stores

\* The request the n-th result is the result of.
RequestOf(n) == crudRequests[crudResults[n].fnc]

\* C34. add(store, r) run on a store that holds a record of r's primary key
\* (as after a put of the key submitted just before it) resolves to an error
\* named ConstraintError, and leaves every store as it was.
C34_AddCollision ==
  /\ crudStores = Replay(Len(crudResults))
  /\ \A n \in 1..Len(crudResults) :
       LET req == RequestOf(n)
           before == Replay(n - 1)
       IN /\ req.method = "add"
          /\ WithKey(before[req.store_names[1]], req.value.id) # {}
          => /\ crudResults[n].result.kind = "ConstraintError"
             /\ Replay(n) = before

\* The add of testAddFail, submitted in one turn with the put of its key,
\* has failed with ConstraintError, and the store holds the record the put
\* wrote.
C34_Witness ==
  \E n \in 1..Len(crudResults) :
    /\ RequestOf(n).method = "add"
    /\ RequestOf(n).first = crudResults[n].fnc - 1
    /\ crudResults[n].result.kind = "ConstraintError"
    /\ crudStores["st"] = {[id |-> 1, value |-> "1"]}

\* C35. clear resolves to the number of stores it cleared: 1 for one store
\* name, the number of names for a list of names, the number of stores of
\* the schema without arguments; the stores it counts hold no record after
\* it, and the others are as before.
C35_ClearCounts ==
  \A n \in 1..Len(crudResults) :
    LET req == RequestOf(n)
        names == req.store_names
        before == Replay(n - 1)
        after == Replay(n)
    IN req.method = "clear"
       => /\ crudResults[n].result.kind = "number"
          /\ crudResults[n].result.n =
               IF names = <<>> THEN Cardinality(schema) ELSE Len(names)
          /\ crudResults[n].result.n =
               Cardinality({s \in DOMAIN after :
                              after[s] = {} /\ s \in Cleared(names)})
          /\ \A s \in DOMAIN after :
               s \notin Cleared(names) => after[s] = before[s]

\* The three calls of testClearStore: clear("st") resolved to 1, clear of
\* the list of st2 and st3 to 2, and clear() to 3.
C35_Witness ==
  /\ \E n \in 1..Len(crudResults) :
       /\ RequestOf(n).method = "clear"
       /\ RequestOf(n).store_names = <<"st">>
       /\ crudResults[n].result.n = 1
  /\ \E n \in 1..Len(crudResults) :
       /\ RequestOf(n).store_names = <<"st2", "st3">>
       /\ crudResults[n].result.n = 2
  /\ \E n \in 1..Len(crudResults) :
       /\ RequestOf(n).method = "clear"
       /\ RequestOf(n).store_names = <<>>
       /\ crudResults[n].result.n = 3

\* The stores after the first i requests submitted, those a queue overflow
\* dropped left out, ran in the order of their submission.
RECURSIVE Serial(_)
Serial(i) ==
  IF i = 0 THEN [name \in Elements(CrudStoreNames) |-> {}]
  ELSE IF i \in dropped THEN Serial(i - 1)
  ELSE execute(Serial(i - 1), crudRequests[i]).stores

\* The requests from the first-th on are the get, the clear and the get of
\* one turn.
GetClearGet(first) ==
  /\ first + 2 <= Len(crudRequests)
  /\ crudRequests[first].method = "get"
  /\ crudRequests[first + 1].method = "clear"
  /\ crudRequests[first + 2].method = "get"
  /\ crudRequests[first + 2].first = first

\* C36. Of the requests get(store, k), clear(store), get(store, k) submitted
\* in one turn, the first get resolves to what the requests submitted before
\* it stored under k (undefined, and no error, when that is nothing), and
\* the get after the clear resolves to undefined.
C36_GetClearGet ==
  \A n \in 1..Len(crudResults) :
    LET fnc == crudResults[n].fnc
        first == RequestOf(n).first
    IN GetClearGet(first)
       => /\ fnc = first
             => crudResults[n].result =
                  dbGet(Serial(first - 1), "st", RequestOf(n).key).result
          /\ fnc = first + 2
             => crudResults[n].result.kind = "undefined"

====
